---- MODULE Spec2Model ----
\* Verification model of opensubtitles_subtitle_downloader:
\* the Selector, the Match Scorer and the Filename Analyzer (subtitle_utils.py),
\* the AI Scorer (ai_subtitle_matcher.py), the per-file provider pipelines and
\* the SubDL download (SubDL.py, OpenSubtitles.py), the token cache (utils.py)
\* and the driver (download_subs.py).
EXTENDS Integers, Sequences, FiniteSets, TLC

\* ---------------------------------------------------------------- bounds
MaxLen == 3            \* longest candidate list handed to the Selector
MaxAiResults == 2      \* longest "results" array in a model response
NumFiles == 2          \* media files given to one run
MaxPerQuery == 1       \* records returned by one search call
MaxImdb == 1           \* IMDb ids surfaced in the first response
MaxAlt == 1            \* alternate names searched per file
RecursionLimit == 3    \* depth at which the interpreter raises RecursionError
MaxScored == 2         \* longest list given to the Match Scorer alone
NumWorkers == 2        \* workers sharing the token cache file
MaxTokens == 3         \* tokens the provider's login endpoint hands out
MaxSeason == 2         \* largest season number in a file name
MaxEpisode == 11       \* largest episode number in a file name
MaxMonth == 2          \* largest month in a dated file name
MaxDay == 2            \* largest day in a dated file name
MaxArchive == 2        \* most files in a downloaded archive

\* ------------------------------------------------------- python helpers
None == << >>

\* no answer read yet at the manual prompt
NoAnswer == -1

\* a function that has not been called yet has returned nothing
NotCalled == "not_called"

\* a download that is no ZIP archive
NotAZip == [is_zip |-> FALSE, names |-> << >>]

\* ------------------------------------------------------- token cache values
\* token.pkl does not exist
NoFile == [kind |-> "absent", token |-> 0, timestamp |-> 0]

\* the workers that share token.pkl
Workers == 1..NumWorkers

\* a worker that has not called login() yet
IdleWorker == [pc |-> "idle", token |-> 0, stamp |-> 0]
Some(x) == << x >>

\* dict.get(k, default)
Get(d, k, default) == IF k \in DOMAIN d THEN d[k] ELSE default

\* d[k] = v
Put(d, k, v) == [x \in (DOMAIN d) \cup {k} |-> IF x = k THEN v ELSE d[x]]

EmptyDict == [x \in {} |-> 0]

\* tuple comparison a < b
RECURSIVE LexLess(_, _)
LexLess(a, b) ==
    IF a = << >> \/ b = << >> THEN Len(a) < Len(b)
    ELSE IF Head(a) # Head(b) THEN Head(a) < Head(b)
    ELSE LexLess(Tail(a), Tail(b))

\* sorted(...)[::-1] in place of reverse=True: equal keys come out in reverse input order
RECURSIVE InsertReverse_unstable(_, _, _)
InsertReverse_unstable(i, order, keys) ==
    IF order = << >> THEN << i >>
    ELSE IF ~LexLess(keys[i], keys[Head(order)]) THEN << i >> \o order
    ELSE << Head(order) >> \o InsertReverse_unstable(i, Tail(order), keys)

\* One insertion of sorted(..., reverse=True): index i (a later input
\* element) goes behind every element whose key is >= its own, so equal keys
\* keep their input order.
RECURSIVE InsertReverse(_, _, _)
InsertReverse(i, order, keys) ==
    IF order = << >> THEN << i >>
    ELSE IF LexLess(keys[Head(order)], keys[i]) THEN << i >> \o order
    ELSE << Head(order) >> \o InsertReverse(i, Tail(order), keys)

RECURSIVE SortOrder(_, _)
SortOrder(n, keys) ==
    IF n = 0 THEN << >> ELSE InsertReverse(n, SortOrder(n - 1, keys), keys)

\* sorted(input_list, key=..., reverse=True); keys[i] is the key of input_list[i]
sorted_reverse(input_list, keys) ==
    [k \in 1..Len(input_list) |-> input_list[SortOrder(Len(input_list), keys)[k]]]

\* ------------------------------------------------------------ names
\* File and release names are drawn from a fixed vocabulary; what the
\* regular expressions of the source extract from each is tabulated.
EpisodeFile == "Show (2024) - S01E02 - 720p HDTV"
MovieFile == "Movie.2021.1080p"
RelSame == "Show S01E02 720p HDTV"
RelOther == "Other S01E03 1080p"
\* a release for another episode of the same series, otherwise like RelSame
RelWrongEp == "Show S01E03 720p HDTV"
\* a name with every quality term, for the greatest score there is
MaxMatchName == "Show S01E02 hdtv 720p 1080p 2160p 4k webdl webrip bluray hdrip"
MediaNames == {EpisodeFile, MovieFile}
Releases == {RelSame, RelOther}
VideoName == EpisodeFile

\* re.split(r"s\d{1,2}e\d{1,2}|season|episode|\d{3,4}p|\b\d{4}\b", clean)[0].strip()
series_name(name) ==
    CASE name = EpisodeFile -> "show"
      [] name = MovieFile -> "movie"
      [] name = RelSame -> "show"
      [] name = RelOther -> "other"
      [] name = RelWrongEp -> "show"
      [] name = MaxMatchName -> "show"
      [] OTHER -> ""

quality_terms == {"hdtv", "720p", "1080p", "2160p", "4k", "webdl", "webrip", "bluray", "hdrip"}

\* the quality terms contained in the cleaned, lower-cased name
terms_in(name) ==
    quality_terms \cap
    (CASE name = EpisodeFile -> {"720p", "hdtv"}
       [] name = MovieFile -> {"1080p"}
       [] name = RelSame -> {"720p", "hdtv"}
       [] name = RelOther -> {"1080p"}
       [] name = RelWrongEp -> {"720p", "hdtv"}
       [] name = MaxMatchName -> quality_terms
       [] OTHER -> {})

\* series_name in sub_file_clean
series_in(series, name) == series # "" /\ series = series_name(name)

Min(a, b) == IF a < b THEN a ELSE b

\* SubtitleUtils.score_subtitle: the traditional score (first tuple element)
score_subtitle(subtitle_release_name, video_file_name, hash_match) ==
    IF subtitle_release_name = "" \/ video_file_name = "" THEN 0
    ELSE (IF hash_match THEN 100 ELSE 0)
       + (IF series_in(series_name(video_file_name), subtitle_release_name) THEN 55 ELSE 0)
       + Min(5 * Cardinality(terms_in(video_file_name) \cap terms_in(subtitle_release_name)), 45)

\* ------------------------------------------------------------ candidates
\* A standardized subtitle object: id and the attributes the Selector reads.
Ids == 1..2
Candidates ==
    [id : Ids, release : Releases, download_count : 0..1, moviehash_match : {FALSE}]

\* all lists of at most n elements of S
ListsUpTo(S, n) == UNION {[1..k -> S] : k \in 0..n}

\* partial maps id -> value, the shape of the scores / ai_scores dicts
DictsOver(K, V) == UNION {[D -> V] : D \in SUBSET K}

VARIABLES
    pc,             \* position in the operation being run
    subtitles_list, \* the candidate list given to the Selector
    auto_select,    \* SubDL.auto_select: automatic or manual selection
    use_ai,         \* SubtitleUtils.use_ai
    scores,         \* dict id -> traditional score
    ai_scores,      \* dict id -> AI score
    best_subtitle,  \* auto_select_subtitle's running best (None or Some)
    sorted_subs,    \* the ranked list
    selected_sub,   \* the Selector's result (None or Some)
    answer,         \* the last answer read at the manual prompt (NoAnswer before any)
    requests,       \* model requests issued by this batch_analyze_subtitles call
    depth,          \* recursion depth of batch_analyze_subtitles
    ai_results,     \* list returned by batch_analyze_subtitles
    ai_outcome,     \* how the AI analysis ended
    backend,        \* "subdl" or "opensubtitles": the client that runs the file list
    media_path_list,\* the media files given to the run
    sync_choice,    \* sync_audio_to_subs / skip_sync_choice: "yes", "no" or "ask"
    file_idx,       \* index of the file being processed
    media_name,     \* name of the file being processed (of the last one, between files)
    issued,         \* the search calls issued for the current file, in order
    metadata_ids,   \* IMDb ids surfaced in the first response (SubDL)
    imdb_left,      \* IMDb ids still to be searched
    alt_left,       \* alternate names still to be searched
    query_failed,   \* some search call of the current file failed
    collected,      \* the results collected for the current file, before deduplication
    file_results,   \* what the per-file function returned for each file handled so far
    run,            \* "running", "completed", "exited" (exit()) or "crashed" (uncaught exception)
    log,            \* the last message printed for the file in hand ("" before any)
    normalized,     \* dict id -> normalize_score of the traditional score
    cache,          \* the token cache file (token.pkl)
    clock,          \* time.time(), in hours
    workers,        \* per worker: position in login(), token held, timestamp to be saved
    tokens_issued,  \* tokens handed out by the provider's login endpoint so far
    extracted,      \* what extract_season_and_episode returned (NotCalled before the call)
    preferred_backend, \* the backend download_subtitles is called with
    config_complete,\* config.yaml holds every key the client's section needs
    chosen_backend, \* what _choose_backend returned (NotCalled before the call)
    archive,        \* what the download url delivers: file names of a ZIP, or no ZIP
    temp_zip,       \* the .zip next to the video exists
    selected_subtitle_path \* download_single_subtitle's result so far (None or Some)

pipeVars == << backend, media_path_list, sync_choice, file_idx, media_name, issued, metadata_ids,
               imdb_left, alt_left,
               query_failed, collected, file_results, run, log >>

scoreVars == << normalized >>

tokenVars == << cache, clock, workers, tokens_issued >>

extractVars == << extracted >>

driverVars == << preferred_backend, config_complete, chosen_backend >>

downloadVars == << archive, temp_zip, selected_subtitle_path >>

\* the variables of the Filename Analyzer, the driver and the SubDL download
moreVars == << extractVars, driverVars, downloadVars >>

\* the variables of the Match Scorer alone and of the token cache
extraVars == << scoreVars, tokenVars, moreVars >>

vars == << pc, subtitles_list, auto_select, use_ai, scores, ai_scores, best_subtitle,
           sorted_subs, selected_sub, answer, requests, depth, ai_results, ai_outcome, pipeVars,
           extraVars >>

\* ------------------------------------------------------------ Selector
\* the key with its first two components exchanged
sort_key_traditional_first(x, scores_, ai_scores_) ==
    << IF DOMAIN scores_ # {} THEN Get(scores_, x.id, 0) ELSE 0,
       IF DOMAIN ai_scores_ # {} THEN Get(ai_scores_, x.id, 0) ELSE 0,
       x.download_count >>

\* the key of sort_subtitle_list's lambda
sort_key(x, scores_, ai_scores_) ==
    << IF DOMAIN ai_scores_ # {} THEN Get(ai_scores_, x.id, 0) ELSE 0,
       IF DOMAIN scores_ # {} THEN Get(scores_, x.id, 0) ELSE 0,
       x.download_count >>

\* SubtitleUtils.sort_subtitle_list
sort_subtitle_list(list, scores_, ai_scores_) ==
    sorted_reverse(list, [i \in 1..Len(list) |-> sort_key(list[i], scores_, ai_scores_)])

\* the scoring loop shared by manual_select_subtitle and auto_select_subtitle:
\* scores[sub["id"]] = traditional_score, in list order
RECURSIVE traditional_scores(_, _)
traditional_scores(list, video_file_name) ==
    IF list = << >> THEN EmptyDict
    ELSE LET n == Len(list)
             sub == list[n]
         IN Put(traditional_scores(SubSeq(list, 1, n - 1), video_file_name), sub.id,
                score_subtitle(sub.release, video_file_name, sub.moviehash_match))

\* auto_select_subtitle's loop: max_score starts at -1 and the best subtitle is
\* replaced only by a strictly greater traditional score
RECURSIVE best_of(_, _)
best_of(list, video_file_name) ==
    IF list = << >> THEN [max_score |-> -1, best_subtitle |-> None]
    ELSE LET n == Len(list)
             sub == list[n]
             prev == best_of(SubSeq(list, 1, n - 1), video_file_name)
             s == score_subtitle(sub.release, video_file_name, sub.moviehash_match)
         IN IF s > prev.max_score
            THEN [max_score |-> s, best_subtitle |-> Some(sub)]
            ELSE prev

\* ai_scores[result.subtitle_id] = result.score, in the order of ai_results
RECURSIVE collect_ai_scores(_)
collect_ai_scores(results) ==
    IF results = << >> THEN EmptyDict
    ELSE LET n == Len(results)
         IN Put(collect_ai_scores(SubSeq(results, 1, n - 1)),
                results[n].subtitle_id, results[n].score)

\* ------------------------------------------------------------ AI Scorer
\* One element of the "results" array of a model response: its
\* scores.final_score, numeric or not (float() raises on the latter).
AiItems ==
    [numeric : {TRUE}, final_score : {60, 150}] \cup {[numeric |-> FALSE, final_score |-> 0]}

\* the loop over results_array in batch_analyze_subtitles: an element whose
\* index has no subtitle (IndexError) or whose final_score is not a number
\* (ValueError) is skipped; the score is taken as float(final_score)
RECURSIVE match_results(_, _)
match_results(results_array, list) ==
    IF results_array = << >> THEN << >>
    ELSE LET n == Len(results_array)
             prev == match_results(SubSeq(results_array, 1, n - 1), list)
         IN IF n <= Len(list) /\ results_array[n].numeric
            THEN Append(prev, [subtitle_id |-> list[n].id,
                               score |-> results_array[n].final_score])
            ELSE prev

\* what batch_analyze_subtitles returns for a response that json.loads accepts:
\* sorted by score * 0.7 + confidence * 0.3 with confidence 0.8 (here times 100)
analyzed(results_array, list) ==
    LET m == match_results(results_array, list)
    IN IF results_array = << >> \/ m = << >> THEN << >>
       ELSE sorted_reverse(m, [i \in 1..Len(m) |-> << m[i].score * 70 + 24 >>])

\* ------------------------------------------------------------ actions: Selector
selVars == << subtitles_list, auto_select, use_ai >>
aiVars == << requests, depth, ai_results, ai_outcome >>

\* the scoring loop of manual_select_subtitle / auto_select_subtitle
CalculateScores ==
    /\ pc = "score"
    /\ scores' = traditional_scores(subtitles_list, VideoName)
    /\ best_subtitle' = IF auto_select THEN best_of(subtitles_list, VideoName).best_subtitle
                                       ELSE None
    /\ pc' = IF use_ai THEN "ai_request" ELSE "sort"
    /\ UNCHANGED << pipeVars, extraVars, selVars, aiVars, ai_scores, sorted_subs, selected_sub,
                    answer >>

\* batch_analyze_subtitles: self.client.chat.completions.create(...)
QueryModel ==
    /\ pc = "ai_request"
    /\ requests' = requests + 1
    /\ pc' = "ai_response"
    /\ UNCHANGED << pipeVars, extraVars, selVars, scores, ai_scores, best_subtitle, sorted_subs,
                    selected_sub, answer,
                    depth, ai_results, ai_outcome >>

\* the exception is not caught around the AI call: the outer handler returns None
AnalysisRaises_uncaught ==
    /\ pc = "ai_request"
    /\ depth = 0
    /\ ai_outcome' = "raised"
    /\ selected_sub' = None
    /\ pc' = "done"
    /\ UNCHANGED << pipeVars, extraVars, selVars, scores, ai_scores, best_subtitle, sorted_subs,
                    answer,
                    requests, depth, ai_results >>

\* batch_analyze_subtitles raises before its own try block: the caller's except
AnalysisRaises ==
    /\ pc = "ai_request"
    /\ depth = 0
    /\ ai_outcome' = "raised"
    /\ pc' = "sort"
    /\ UNCHANGED << pipeVars, extraVars, selVars, scores, ai_scores, best_subtitle, sorted_subs,
                    selected_sub, answer,
                    requests, depth, ai_results >>

AiReturn(results, outcome) ==
    /\ ai_results' = results
    /\ ai_outcome' = outcome
    /\ pc' = "ai_return"
    /\ UNCHANGED << pipeVars, extraVars, selVars, scores, ai_scores, best_subtitle, sorted_subs,
                    selected_sub, answer,
                    requests, depth >>

\* the request raises (network error, timeout): except Exception -> []
ModelRaises ==
    /\ pc = "ai_response"
    /\ AiReturn(<< >>, "request_failed")

\* the response parses as JSON
ModelAnswers ==
    /\ pc = "ai_response"
    /\ \E results_array \in ListsUpTo(AiItems, MaxAiResults) :
          AiReturn(analyzed(results_array, subtitles_list), "parsed")

\* json.loads fails and the repaired text fails too: bare except -> []
ModelAnswersMalformed ==
    /\ pc = "ai_response"
    /\ AiReturn(<< >>, "malformed")

\* json.loads fails, the repaired text parses: the function calls itself
ModelAnswersTruncated ==
    /\ pc = "ai_response"
    /\ IF depth < RecursionLimit
       THEN /\ depth' = depth + 1
            /\ pc' = "ai_request"
            /\ UNCHANGED << pipeVars, extraVars, selVars, scores, ai_scores, best_subtitle,
                            sorted_subs,
                            selected_sub, answer, requests, ai_results, ai_outcome >>
       ELSE AiReturn(<< >>, "recursion_error")

\* the caller's loop over ai_results
CollectAiScores ==
    /\ pc = "ai_return"
    /\ ai_scores' = collect_ai_scores(ai_results)
    /\ pc' = "sort"
    /\ UNCHANGED << pipeVars, extraVars, selVars, aiVars, scores, best_subtitle, sorted_subs,
                    selected_sub, answer >>

\* auto_select_subtitle: sort_subtitle_list(standardized_subs, scores), return best_subtitle
AutoSelect ==
    /\ pc = "sort"
    /\ auto_select
    /\ sorted_subs' = sort_subtitle_list(subtitles_list, scores, EmptyDict)
    /\ selected_sub' = best_subtitle
    /\ UNCHANGED answer
    /\ pc' = "done"
    /\ UNCHANGED << pipeVars, extraVars, selVars, aiVars, scores, ai_scores, best_subtitle >>

\* manual_select_subtitle: sort_subtitle_list(subtitles_list, scores, ai_scores), display
ManualRank ==
    /\ pc = "sort"
    /\ ~auto_select
    /\ sorted_subs' = sort_subtitle_list(subtitles_list, scores, ai_scores)
    /\ pc' = "prompt"
    /\ UNCHANGED << pipeVars, extraVars, selVars, aiVars, scores, ai_scores, best_subtitle,
                    selected_sub, answer >>

\* manual_select_subtitle's prompt loop; choice Len+1 stands for every invalid
\* answer: the message is printed, nothing changes and the prompt is shown again
ManualChoice ==
    /\ pc = "prompt"
    /\ \E choice \in 0..(Len(sorted_subs) + 1) :
          /\ answer' = choice
          /\ IF choice = 0
             THEN /\ selected_sub' = None
                  /\ pc' = "done"
             ELSE IF choice <= Len(sorted_subs)
             THEN /\ selected_sub' = Some(sorted_subs[choice])
                  /\ pc' = "done"
             ELSE UNCHANGED << pc, selected_sub >>
    /\ UNCHANGED << pipeVars, extraVars, selVars, aiVars, scores, ai_scores, best_subtitle,
                    sorted_subs >>

InitPipelineIdle ==
    /\ backend = "subdl"
    /\ media_path_list = << >>
    /\ sync_choice = "no"
    /\ file_idx = 1
    /\ media_name = ""
    /\ issued = << >>
    /\ metadata_ids = 0
    /\ imdb_left = 0
    /\ alt_left = 0
    /\ query_failed = FALSE
    /\ collected = << >>
    /\ file_results = << >>
    /\ run = "running"
    /\ log = ""

\* nothing normalized, no cache file, no worker logging in
InitMoreIdle ==
    /\ extracted = NotCalled
    /\ preferred_backend = "opensubtitles"
    /\ config_complete = TRUE
    /\ chosen_backend = NotCalled
    /\ archive = NotAZip
    /\ temp_zip = FALSE
    /\ selected_subtitle_path = None

InitExtraIdle ==
    /\ InitMoreIdle
    /\ normalized = EmptyDict
    /\ cache = NoFile
    /\ clock = 0
    /\ workers = [w \in Workers |-> IdleWorker]
    /\ tokens_issued = 0

InitSelectorIdle ==
    /\ scores = EmptyDict
    /\ ai_scores = EmptyDict
    /\ best_subtitle = None
    /\ sorted_subs = << >>
    /\ selected_sub = None
    /\ answer = NoAnswer
    /\ requests = 0
    /\ depth = 0
    /\ ai_results = << >>
    /\ ai_outcome = "none"

\* the Selector run on one candidate list
InitSelect ==
    /\ pc = "score"
    /\ subtitles_list \in ListsUpTo(Candidates, MaxLen)
    /\ auto_select \in BOOLEAN
    /\ use_ai \in BOOLEAN
    /\ InitSelectorIdle
    /\ InitPipelineIdle
    /\ InitExtraIdle

NextSelect ==
    \/ CalculateScores
    \/ QueryModel
    \/ AnalysisRaises
    \/ ModelRaises
    \/ ModelAnswers
    \/ ModelAnswersMalformed
    \/ ModelAnswersTruncated
    \/ CollectAiScores
    \/ AutoSelect
    \/ ManualRank
    \/ ManualChoice

SpecSelect == InitSelect /\ [][NextSelect]_vars

\* ------------------------------------------------------------ sort_subtitle_list alone
ScoreDicts == DictsOver(Ids, {55})
AiScoreDicts == DictsOver(Ids, {60})

\* sort_subtitle_list applied to a list and two score dicts
SortSubtitleList ==
    /\ pc = "sort_input"
    /\ sorted_subs' = sort_subtitle_list(subtitles_list, scores, ai_scores)
    /\ pc' = "sorted"
    /\ UNCHANGED << pipeVars, extraVars, selVars, aiVars, scores, ai_scores, best_subtitle,
                    selected_sub, answer >>

InitSort ==
    /\ pc = "sort_input"
    /\ subtitles_list \in ListsUpTo(Candidates, MaxLen)
    /\ scores \in ScoreDicts
    /\ ai_scores \in AiScoreDicts
    /\ auto_select = FALSE
    /\ use_ai = FALSE
    /\ best_subtitle = None
    /\ sorted_subs = << >>
    /\ selected_sub = None
    /\ answer = NoAnswer
    /\ requests = 0
    /\ depth = 0
    /\ ai_results = << >>
    /\ ai_outcome = "none"
    /\ InitPipelineIdle
    /\ InitExtraIdle

NextSort == SortSubtitleList

SpecSort == InitSort /\ [][NextSort]_vars

\* ------------------------------------------------------------ provider pipeline
\* what extract_subdl_subtitle_id returns for a missing or short url
NoId == 0

\* raw SubDL records: the url and the release name; an entry of the "subtitles"
\* array that is no JSON object has no fields to read
Urls == {"", "/subtitle/1.zip"}
NotADict == [is_dict |-> FALSE]
SubDLRecords == [is_dict : {TRUE}, url : Urls, release_name : Releases] \cup {NotADict}

\* Python's None as an element of a candidate list
NoneSub == [is_none |-> TRUE]

\* raw OpenSubtitles records are already in the standard shape
OsRecords == Candidates

\* SubtitleUtils.extract_subdl_subtitle_id: parts[2] without ".zip", None for
\* an empty url or one with fewer than three parts
extract_subdl_subtitle_id(url) ==
    CASE url = "/subtitle/1.zip" -> 1
      [] url = "/subtitle/2.zip" -> 2
      [] OTHER -> NoId

\* SubtitleUtils.standardize_subtitle_object: subtitle.get on a value that is no
\* dict raises, the error is printed and None is returned
standardize_subtitle_object(subtitle, backend_) ==
    IF backend_ = "opensubtitles" THEN subtitle
    ELSE IF ~subtitle.is_dict THEN NoneSub
    ELSE [id |-> extract_subdl_subtitle_id(subtitle.url),
          release |-> subtitle.release_name,
          download_count |-> 0,
          moviehash_match |-> FALSE]

\* SubDL.search on success: every record standardized
standardized(subtitles) ==
    [i \in 1..Len(subtitles) |-> standardize_subtitle_object(subtitles[i], "subdl")]

\* re.search(r"(.+?)(?:\s-\sS\d{2}E\d{2}|\s-\s\d{4})", media_name)
series_pattern(name) == name = EpisodeFile

\* number of strings get_alternate_names yields: SubtitleUtils' (8 formats for the
\* episode file, None for the movie) for SubDL, OpenSubtitles' own (4 formats, or
\* None) for OpenSubtitles; the model searches at most MaxAlt of them
alternate_names(name, backend_) ==
    IF name = EpisodeFile
    THEN Min(MaxAlt, IF backend_ = "subdl" THEN 8 ELSE 4)
    ELSE 0

\* how a search call can fail
SearchFailures == {"http_error", "network_error", "api_error"}

\* the ids of a list in first-seen order
RECURSIVE first_seen_ids(_)
first_seen_ids(list) ==
    IF list = << >> THEN << >>
    ELSE LET n == Len(list)
             prev == first_seen_ids(SubSeq(list, 1, n - 1))
         IN IF \E k \in DOMAIN prev : prev[k] = list[n].id THEN prev
            ELSE Append(prev, list[n].id)

\* the records of a list that are the first with their id
RECURSIVE unique_data(_)
unique_data(input_list) ==
    IF input_list = << >> THEN << >>
    ELSE LET n == Len(input_list)
             prev == unique_data(SubSeq(input_list, 1, n - 1))
         IN IF \E k \in DOMAIN prev : prev[k].id = input_list[n].id THEN prev
            ELSE Append(prev, input_list[n])

\* no deduplication at all
dedup_skipped(list) == list

\* SubDL: list({v["id"]: v for v in subtitles_list}.values()): a key keeps the
\* position of its first insertion and the value of its last
dedup_by_id(list) ==
    LET ids == first_seen_ids(list)
        last(id) == CHOOSE i \in DOMAIN list :
                        /\ list[i].id = id
                        /\ \A j \in DOMAIN list : list[j].id = id => j <= i
    IN [k \in 1..Len(ids) |-> list[last(ids[k])]]

\* OpenSubtitles.sort_list_of_dicts_by_key (and SubtitleUtils'), key download_count
sort_list_of_dicts_by_key(input_list) ==
    LET u == unique_data(input_list)
    IN sorted_reverse(u, [i \in 1..Len(u) |-> << u[i].download_count >>])

\* OpenSubtitles.extract_season_and_episode: << season, episode >> or None
os_extract_season_and_episode(name) ==
    CASE name = EpisodeFile -> << 1, 2 >>
      [] name = RelSame -> << 1, 2 >>
      [] name = RelOther -> << 1, 3 >>
      [] OTHER -> None

\* fuzz.token_sort_ratio(video_file_name.lower(), release_name.lower())
token_sort_ratio(video_file_name, release_name) ==
    CASE video_file_name = EpisodeFile /\ release_name = RelSame -> 89
      [] video_file_name = EpisodeFile /\ release_name = RelOther -> 50
      [] video_file_name = MovieFile /\ release_name = RelSame -> 38
      [] video_file_name = MovieFile /\ release_name = RelOther -> 53
      [] OTHER -> 0

\* the name with "-", " " and "_" replaced by "."; re.split(r"[-\s_]", ...) then
\* finds nothing to split on and yields this one part
dotted(name) ==
    CASE name = EpisodeFile -> "show.(2024)...s01e02...720p.hdtv"
      [] name = MovieFile -> "movie.2021.1080p"
      [] name = RelSame -> "show.s01e02.720p.hdtv"
      [] name = RelOther -> "other.s01e03.1080p"
      [] OTHER -> ""

\* the score OpenSubtitles.auto_select_subtitle gives a release without hash match
os_score(release_name, video_file_name) ==
    LET similarity == token_sort_ratio(video_file_name, release_name)
        source == os_extract_season_and_episode(video_file_name)
        target == os_extract_season_and_episode(release_name)
    IN (IF dotted(release_name) = dotted(video_file_name) THEN 1 ELSE 0)
     + (IF similarity = 100 THEN 100
        ELSE IF similarity > 90 THEN 50
        ELSE IF similarity > 70 THEN 35
        ELSE IF similarity > 40 THEN 10
        ELSE 0)
     + (IF source # None /\ target # None /\ source = target THEN 80 ELSE 0)

\* OpenSubtitles.auto_select_subtitle: the loop from position i on; a hash match
\* is taken at once (break)
RECURSIVE os_auto_select_from(_, _, _, _, _)
os_auto_select_from(list, video_file_name, i, max_score, best) ==
    IF i > Len(list) THEN best
    ELSE IF list[i].moviehash_match THEN Some(list[i])
    ELSE LET score == os_score(list[i].release, video_file_name)
         IN IF score > max_score
            THEN os_auto_select_from(list, video_file_name, i + 1, score, Some(list[i]))
            ELSE os_auto_select_from(list, video_file_name, i + 1, max_score, best)

os_auto_select_subtitle(video_file_name, subtitles_result_list) ==
    os_auto_select_from(subtitles_result_list, video_file_name, 1, -1, None)

\* what batch_analyze_subtitles can return for a list: [] on every failure
AiOutcomes(list) ==
    {<< >>} \cup {analyzed(a, list) : a \in ListsUpTo(AiItems, MaxAiResults)}

\* SubtitleUtils.manual_select_subtitle's ranking, given what the AI call returned
manual_ranking(video_file_name, list, results) ==
    sort_subtitle_list(list, traditional_scores(list, video_file_name),
                       collect_ai_scores(results))

selectorIdle == << use_ai, scores, ai_scores, best_subtitle, aiVars >>

\* return from the per-file function: the locals are gone, the next file is up
FileEnds(result, message) ==
    /\ file_results' = Append(file_results, result)
    /\ log' = message
    /\ file_idx' = file_idx + 1
    /\ pc' = IF file_idx = Len(media_path_list) THEN "run_end" ELSE "file_start"
    /\ run' = IF file_idx = Len(media_path_list) THEN "completed" ELSE run
    /\ collected' = << >>
    /\ subtitles_list' = << >>
    /\ sorted_subs' = << >>
    /\ selected_sub' = None
    /\ answer' = NoAnswer
    /\ imdb_left' = 0
    /\ alt_left' = 0

\* exit() or an exception nobody catches: the run is over
RunEnds(how) ==
    /\ run' = how
    /\ log' = how
    /\ pc' = "run_end"
    /\ UNCHANGED << file_results, file_idx, collected, subtitles_list, sorted_subs,
                    selected_sub, answer, imdb_left, alt_left >>

configVars == << backend, media_path_list, sync_choice, auto_select >>

\* ------------------------------------------------------------ actions: SubDL pipeline
\* a search call of SubDL answered: the standardized records, or nothing when
\* the call fails (every failure is caught inside SubDL.search)
SubDLSearchExtends ==
    \/ \E subs \in ListsUpTo(SubDLRecords, MaxPerQuery) :
          /\ Len(collected) + Len(subs) <= MaxLen
          /\ collected' = collected \o standardized(subs)
          /\ UNCHANGED query_failed
    \/ \E failure \in SearchFailures :
          /\ query_failed' = TRUE
          /\ UNCHANGED collected

\* process_media_file: the initial search by file name
SubDLBaseSearch ==
    /\ pc = "file_start"
    /\ backend = "subdl"
    /\ media_name' = media_path_list[file_idx]
    /\ issued' = << "file_name" >>
    /\ \/ \E subs \in ListsUpTo(SubDLRecords, MaxPerQuery), ids \in 0..MaxImdb :
            /\ collected' = standardized(subs)
            /\ metadata_ids' = ids
            /\ imdb_left' = ids
            /\ query_failed' = FALSE
       \/ \E failure \in SearchFailures :
            /\ collected' = << >>
            /\ metadata_ids' = 0
            /\ imdb_left' = 0
            /\ query_failed' = TRUE
    /\ alt_left' = alternate_names(media_path_list[file_idx], "subdl")
    /\ pc' = "series"
    /\ log' = ""
    /\ UNCHANGED << configVars, extraVars, selectorIdle, file_idx, file_results, run,
                    subtitles_list,
                    sorted_subs, selected_sub, answer >>

\* process_media_file: the search by series name when the pattern matches
SubDLSeriesSearch ==
    /\ pc = "series"
    /\ backend = "subdl"
    /\ IF series_pattern(media_name)
       THEN /\ issued' = Append(issued, "film_name")
            /\ SubDLSearchExtends
       ELSE UNCHANGED << issued, collected, query_failed >>
    /\ pc' = "imdb"
    /\ UNCHANGED << configVars, extraVars, selectorIdle, file_idx, media_name, metadata_ids,
                    imdb_left,
                    alt_left, file_results, log, run, subtitles_list, sorted_subs, selected_sub,
                    answer >>

\* process_media_file: one search per IMDb id of the first response
SubDLImdbSearch ==
    /\ pc = "imdb"
    /\ backend = "subdl"
    /\ IF imdb_left > 0
       THEN /\ issued' = Append(issued, "imdb_id")
            /\ SubDLSearchExtends
            /\ imdb_left' = imdb_left - 1
            /\ UNCHANGED pc
       ELSE /\ pc' = "alternate"
            /\ UNCHANGED << issued, collected, query_failed, imdb_left >>
    /\ UNCHANGED << configVars, extraVars, selectorIdle, file_idx, media_name, metadata_ids,
                    alt_left,
                    file_results, log, run, subtitles_list, sorted_subs, selected_sub, answer >>

\* process_media_file: one search per alternate name
SubDLAlternateSearch ==
    /\ pc = "alternate"
    /\ backend = "subdl"
    /\ IF alt_left > 0
       THEN /\ issued' = Append(issued, "alternate")
            /\ SubDLSearchExtends
            /\ alt_left' = alt_left - 1
            /\ UNCHANGED pc
       ELSE /\ pc' = "collected"
            /\ UNCHANGED << issued, collected, query_failed, alt_left >>
    /\ UNCHANGED << configVars, extraVars, selectorIdle, file_idx, media_name, metadata_ids,
                    imdb_left,
                    file_results, log, run, subtitles_list, sorted_subs, selected_sub, answer >>

\* the removal of duplicates without the test for an empty list
SubDLDeduplicate_unchecked ==
    /\ pc = "collected"
    /\ backend = "subdl"
    /\ IF \E i \in DOMAIN collected : collected[i] = NoneSub
       THEN FileEnds(FALSE, "unexpected_error")
       ELSE /\ subtitles_list' = dedup_by_id(collected)
            /\ pc' = "select"
            /\ UNCHANGED << collected, sorted_subs, selected_sub, answer, file_results, log,
                            file_idx, run, imdb_left, alt_left >>
    /\ UNCHANGED << configVars, extraVars, selectorIdle, media_name, issued, metadata_ids,
                    query_failed >>

\* process_media_file: "No subtitles found" or the removal of duplicates; v["id"]
\* on a None entry raises TypeError, caught by the except around the whole body
SubDLDeduplicate ==
    /\ pc = "collected"
    /\ backend = "subdl"
    /\ IF collected = << >>
       THEN FileEnds(FALSE, "no_subtitles_found")
       ELSE IF \E i \in DOMAIN collected : collected[i] = NoneSub
       THEN FileEnds(FALSE, "unexpected_error")
       ELSE /\ subtitles_list' = dedup_by_id(collected)
            /\ pc' = "select"
            /\ UNCHANGED << collected, sorted_subs, selected_sub, answer, file_results, log,
                            file_idx, run,
                            imdb_left, alt_left >>
    /\ UNCHANGED << configVars, extraVars, selectorIdle, media_name, issued, metadata_ids,
                    query_failed >>

\* the prompt loop on an answer that is no index of the list (or no number):
\* the message is printed and the prompt is shown again
InvalidIndex(input) ==
    /\ answer' = input
    /\ UNCHANGED << pc, collected, subtitles_list, sorted_subs, selected_sub, file_results,
                    log, file_idx, run, imdb_left, alt_left >>

\* the download goes ahead even when nothing was selected
Selected_ignores_cancel(ranking, chosen, input) ==
    /\ selected_sub' = chosen
    /\ answer' = input
    /\ sorted_subs' = ranking
    /\ pc' = "download"
    /\ UNCHANGED << collected, subtitles_list, file_results, log, file_idx, run, imdb_left,
                    alt_left >>

\* the Selector's answer is in: cancelled, or on to the download
Selected(ranking, chosen, input) ==
    IF chosen = None
    THEN FileEnds(FALSE, "cancelled")
    ELSE /\ selected_sub' = chosen
         /\ answer' = input
         /\ sorted_subs' = ranking
         /\ pc' = "download"
         /\ UNCHANGED << collected, subtitles_list, file_results, log, file_idx, run, imdb_left,
                         alt_left >>

\* process_media_file: SubtitleUtils.auto_select_subtitle or manual_select_subtitle
SubDLSelect ==
    /\ pc = "select"
    /\ backend = "subdl"
    /\ IF auto_select
       THEN Selected(sort_subtitle_list(subtitles_list,
                                        traditional_scores(subtitles_list, media_name),
                                        EmptyDict),
                     best_of(subtitles_list, media_name).best_subtitle,
                     NoAnswer)
       ELSE \E ranking \in {manual_ranking(media_name, subtitles_list, results) :
                                results \in AiOutcomes(subtitles_list)} :
               \E choice \in 0..(Len(ranking) + 1) :
                  IF choice > Len(ranking)
                  THEN InvalidIndex(choice)
                  ELSE Selected(ranking,
                                IF choice = 0 THEN None ELSE Some(ranking[choice]),
                                choice)
    /\ UNCHANGED << configVars, extraVars, selectorIdle, media_name, issued, metadata_ids,
                    query_failed >>

\* download_single_subtitle: the path of the extracted subtitle, or None
SubDLDownload ==
    /\ pc = "download"
    /\ backend = "subdl"
    /\ \E subtitle_path \in {"path", "None"} :
          IF subtitle_path = "None"
          THEN FileEnds(FALSE, "download_failed")
          ELSE /\ pc' = "clean"
               /\ UNCHANGED << collected, subtitles_list, sorted_subs, selected_sub, answer,
                               file_results, log, file_idx, run, imdb_left, alt_left >>
    /\ UNCHANGED << configVars, extraVars, selectorIdle, media_name, issued, metadata_ids,
                    query_failed >>

\* SubtitleUtils.clean_subtitles: errors are caught and printed
SubDLClean ==
    /\ pc = "clean"
    /\ backend = "subdl"
    /\ pc' = "sync"
    /\ UNCHANGED << configVars, extraVars, selectorIdle, media_name, issued, metadata_ids,
                    query_failed,
                    collected, subtitles_list, sorted_subs, selected_sub, answer, file_results, log,
                    file_idx, run, imdb_left, alt_left >>

\* what a step between two stages of the same file leaves alone
fileVars ==
    << collected, subtitles_list, sorted_subs, selected_sub, answer, file_results, log,
       file_idx, run, imdb_left, alt_left >>

\* process_media_file: sync_audio_to_subs is "ask", truthy, or falsy (return True)
SubDLSync ==
    /\ pc = "sync"
    /\ backend = "subdl"
    /\ CASE sync_choice = "ask" -> pc' = "ask_sync" /\ UNCHANGED fileVars
         [] sync_choice = "yes" -> pc' = "syncing" /\ UNCHANGED fileVars
         [] OTHER -> FileEnds(TRUE, "downloaded")
    /\ UNCHANGED << configVars, extraVars, selectorIdle, media_name, issued, metadata_ids,
                    query_failed >>

\* SubtitleUtils.ask_sync_subtitles: y or n (anything else prompts again)
SubDLAskSync ==
    /\ pc = "ask_sync"
    /\ backend = "subdl"
    /\ \E should_sync \in BOOLEAN :
          IF should_sync
          THEN pc' = "syncing" /\ UNCHANGED fileVars
          ELSE FileEnds(TRUE, "downloaded")
    /\ UNCHANGED << configVars, extraVars, selectorIdle, media_name, issued, metadata_ids,
                    query_failed >>

\* SubtitleUtils.sync_subtitles (its errors are caught and printed) and return True
SubDLSyncSubtitles ==
    /\ pc = "syncing"
    /\ backend = "subdl"
    /\ FileEnds(TRUE, "downloaded")
    /\ UNCHANGED << configVars, extraVars, selectorIdle, media_name, issued, metadata_ids,
                    query_failed >>

\* process_media_file: except Exception around the whole body
SubDLUnexpectedError ==
    /\ pc \in {"select", "download", "clean", "sync"}
    /\ backend = "subdl"
    /\ FileEnds(FALSE, "unexpected_error")
    /\ UNCHANGED << configVars, extraVars, selectorIdle, media_name, issued, metadata_ids,
                    query_failed >>

\* ------------------------------------------------------------ actions: OpenSubtitles pipeline
\* download_single_subtitle: the search by hash and name; search catches an
\* error status (HTTPError) and returns None, a network error is not caught
OsBaseSearch ==
    /\ pc = "file_start"
    /\ backend = "opensubtitles"
    /\ media_name' = media_path_list[file_idx]
    /\ issued' = << "query" >>
    /\ metadata_ids' = 0
    /\ \/ \E data \in ListsUpTo(OsRecords, MaxPerQuery) :
            /\ query_failed' = FALSE
            /\ IF data = << >>
               THEN FileEnds(FALSE, "no_subtitles_found")
               ELSE /\ collected' = data
                    /\ alt_left' = alternate_names(media_path_list[file_idx], "opensubtitles")
                    /\ pc' = "alternate"
                    /\ log' = ""
                    /\ UNCHANGED << file_results, file_idx, run, subtitles_list, sorted_subs,
                                    selected_sub, answer, imdb_left >>
       \/ /\ query_failed' = TRUE
          /\ \E failure \in SearchFailures :
                IF failure = "network_error"
                THEN RunEnds("crashed")
                ELSE FileEnds(FALSE, "no_subtitles_found")
    /\ UNCHANGED << configVars, extraVars, selectorIdle >>

\* download_single_subtitle: one search per alternate name
OsAlternateSearch ==
    /\ pc = "alternate"
    /\ backend = "opensubtitles"
    /\ IF alt_left > 0
       THEN /\ issued' = Append(issued, "alternate")
            /\ \/ \E temp_results \in ListsUpTo(OsRecords, MaxPerQuery) :
                    /\ Len(collected) + Len(temp_results) <= MaxLen
                    /\ collected' = collected \o temp_results
                    /\ alt_left' = alt_left - 1
                    /\ UNCHANGED << query_failed, pc, run >>
               \/ /\ query_failed' = TRUE
                  /\ \E failure \in SearchFailures :
                        IF failure = "network_error"
                        THEN /\ run' = "crashed"
                             /\ pc' = "run_end"
                             /\ UNCHANGED << collected, alt_left >>
                        ELSE /\ alt_left' = alt_left - 1
                             /\ UNCHANGED << collected, pc, run >>
       ELSE /\ pc' = "collected"
            /\ UNCHANGED << issued, collected, query_failed, alt_left, run >>
    /\ UNCHANGED << configVars, extraVars, selectorIdle, file_idx, media_name, metadata_ids,
                    imdb_left,
                    file_results, log, subtitles_list, sorted_subs, selected_sub, answer >>

\* download_single_subtitle: sort_list_of_dicts_by_key(results, "download_count")
OsDeduplicate ==
    /\ pc = "collected"
    /\ backend = "opensubtitles"
    /\ IF collected = << >>
       THEN FileEnds(FALSE, "no_subtitles_found")
       ELSE /\ subtitles_list' = sort_list_of_dicts_by_key(collected)
            /\ pc' = "select"
            /\ UNCHANGED << collected, sorted_subs, selected_sub, answer, file_results, log,
                            file_idx, run,
                            imdb_left, alt_left >>
    /\ UNCHANGED << configVars, extraVars, selectorIdle, media_name, issued, metadata_ids,
                    query_failed >>

\* download_single_subtitle: OpenSubtitles.auto_select_subtitle or manual_select_subtitle
OsSelect ==
    /\ pc = "select"
    /\ backend = "opensubtitles"
    /\ IF auto_select
       THEN Selected(subtitles_list, os_auto_select_subtitle(media_name, subtitles_list),
                     NoAnswer)
       ELSE \E choice \in 0..(Len(subtitles_list) + 1) :
               IF choice > Len(subtitles_list)
               THEN InvalidIndex(choice)
               ELSE Selected(subtitles_list,
                             IF choice = 0 THEN None ELSE Some(subtitles_list[choice]),
                             choice)
    /\ UNCHANGED << configVars, extraVars, selectorIdle, media_name, issued, metadata_ids,
                    query_failed >>

\* get_download_link: a response without "link" (or a record without files) calls
\* exit(); a network error is not caught
OsGetDownloadLink ==
    /\ pc = "download"
    /\ backend = "opensubtitles"
    /\ \E response \in {"link", "no_link", "network_error"} :
          IF response = "link"
          THEN /\ pc' = "save"
               /\ UNCHANGED << collected, subtitles_list, sorted_subs, selected_sub, answer,
                               file_results, log, file_idx, run, imdb_left, alt_left >>
          ELSE RunEnds(IF response = "no_link" THEN "exited" ELSE "crashed")
    /\ UNCHANGED << configVars, extraVars, selectorIdle, media_name, issued, metadata_ids,
                    query_failed >>

\* save_subtitle: requests.get and the write, nothing caught
OsSaveSubtitle ==
    /\ pc = "save"
    /\ backend = "opensubtitles"
    /\ \E saved \in BOOLEAN :
          IF saved
          THEN /\ pc' = "clean"
               /\ UNCHANGED << collected, subtitles_list, sorted_subs, selected_sub, answer,
                               file_results, log, file_idx, run, imdb_left, alt_left >>
          ELSE RunEnds("crashed")
    /\ UNCHANGED << configVars, extraVars, selectorIdle, media_name, issued, metadata_ids,
                    query_failed >>

\* OpenSubtitles.clean_subtitles: clean_ads, nothing caught
OsClean ==
    /\ pc = "clean"
    /\ backend = "opensubtitles"
    /\ \E cleaned \in BOOLEAN :
          IF cleaned
          THEN /\ pc' = "sync"
               /\ UNCHANGED << collected, subtitles_list, sorted_subs, selected_sub, answer,
                               file_results, log, file_idx, run, imdb_left, alt_left >>
          ELSE RunEnds("crashed")
    /\ UNCHANGED << configVars, extraVars, selectorIdle, media_name, issued, metadata_ids,
                    query_failed >>

\* if self.sync_choice: any truthy value, "ask" included; otherwise return True
OsSync ==
    /\ pc = "sync"
    /\ backend = "opensubtitles"
    /\ IF sync_choice # "no"
       THEN pc' = "syncing" /\ UNCHANGED fileVars
       ELSE FileEnds(TRUE, "downloaded")
    /\ UNCHANGED << configVars, extraVars, selectorIdle, media_name, issued, metadata_ids,
                    query_failed >>

\* OpenSubtitles.sync_subtitles: sync_subs_audio(media_path, subtitle_path), a
\* function of one parameter: TypeError, not caught
OsSyncSubtitles ==
    /\ pc = "syncing"
    /\ backend = "opensubtitles"
    /\ RunEnds("crashed")
    /\ UNCHANGED << configVars, extraVars, selectorIdle, media_name, issued, metadata_ids,
                    query_failed >>

\* the file lists of a run: episode and movie files alternate
MediaLists ==
    {[i \in 1..NumFiles |-> IF (i + k) % 2 = 0 THEN EpisodeFile ELSE MovieFile] : k \in 0..1}

\* a client is constructed and given the list of media files
Init ==
    /\ pc = "file_start"
    /\ backend \in {"subdl", "opensubtitles"}
    /\ media_path_list \in MediaLists
    /\ sync_choice \in {"yes", "no", "ask"}
    /\ auto_select \in BOOLEAN
    /\ use_ai = TRUE
    /\ subtitles_list = << >>
    /\ InitSelectorIdle
    /\ file_idx = 1
    /\ media_name = ""
    /\ issued = << >>
    /\ metadata_ids = 0
    /\ imdb_left = 0
    /\ alt_left = 0
    /\ query_failed = FALSE
    /\ collected = << >>
    /\ file_results = << >>
    /\ run = "running"
    /\ log = ""
    /\ InitExtraIdle

Next ==
    \/ SubDLBaseSearch
    \/ SubDLSeriesSearch
    \/ SubDLImdbSearch
    \/ SubDLAlternateSearch
    \/ SubDLDeduplicate
    \/ SubDLSelect
    \/ SubDLDownload
    \/ SubDLClean
    \/ SubDLSync
    \/ SubDLAskSync
    \/ SubDLSyncSubtitles
    \/ SubDLUnexpectedError
    \/ OsBaseSearch
    \/ OsAlternateSearch
    \/ OsDeduplicate
    \/ OsSelect
    \/ OsGetDownloadLink
    \/ OsSaveSubtitle
    \/ OsClean
    \/ OsSync
    \/ OsSyncSubtitles

Spec == Init /\ [][Next]_vars

\* ------------------------------------------------------------ the Match Scorer alone
\* release names given to the scorer: also the video's own name and the empty string
ScoreReleases == Releases \cup {RelWrongEp, EpisodeFile, MaxMatchName, ""}
ScoreVideoNames == MediaNames \cup {MaxMatchName, ""}
ScoreCandidates ==
    [id : Ids, release : ScoreReleases, download_count : {0}, moviehash_match : BOOLEAN]

MAX_POSSIBLE_SCORE == 500

Max(a, b) == IF a > b THEN a ELSE b

\* SubtitleUtils.normalize_score: max(0, min(100, (score / 500) * 100)); the
\* scores of score_subtitle are multiples of 5, so the quotient is exact
normalize_score(score) == Max(0, Min(100, (score * 100) \div MAX_POSSIBLE_SCORE))

\* the scoring loop: scores[sub["id"]] = traditional_score
ScoreSubtitles ==
    /\ pc = "score_input"
    /\ scores' = traditional_scores(subtitles_list, media_name)
    /\ pc' = "scored"
    /\ UNCHANGED << subtitles_list, auto_select, use_ai, ai_scores, best_subtitle, sorted_subs,
                    selected_sub, answer, aiVars, pipeVars, normalized, tokenVars, moreVars >>

\* normalize_score applied to every score of the dict
NormalizeScores ==
    /\ pc = "scored"
    /\ normalized' = [id \in DOMAIN scores |-> normalize_score(scores[id])]
    /\ pc' = "normalized"
    /\ UNCHANGED << subtitles_list, auto_select, use_ai, scores, ai_scores, best_subtitle,
                    sorted_subs, selected_sub, answer, aiVars, pipeVars, tokenVars, moreVars >>

\* a video file name and a list of candidates for the scorer
InitScore ==
    /\ pc = "score_input"
    /\ subtitles_list \in ListsUpTo(ScoreCandidates, MaxScored)
    /\ media_name \in ScoreVideoNames
    /\ auto_select = TRUE
    /\ use_ai = FALSE
    /\ InitSelectorIdle
    /\ InitExtraIdle
    /\ backend = "subdl"
    /\ media_path_list = << >>
    /\ sync_choice = "no"
    /\ file_idx = 1
    /\ issued = << >>
    /\ metadata_ids = 0
    /\ imdb_left = 0
    /\ alt_left = 0
    /\ query_failed = FALSE
    /\ collected = << >>
    /\ file_results = << >>
    /\ run = "running"
    /\ log = ""

NextScore ==
    \/ ScoreSubtitles
    \/ NormalizeScores

SpecScore == InitScore /\ [][NextScore]_vars

\* ------------------------------------------------------------ the token cache
\* 23 * 3600 seconds, in hours
Window == 23

\* the instants at which something happens: around the end of the window
Instants == {0, Window - 1, Window, Window + 1}

\* a file that pickle.load cannot read, or a dict without one of the two keys
CorruptKinds == {"truncated", "undecodable", "no_token", "no_timestamp"}

\* the token.pkl a process may find when it starts; token 1 is from an earlier run
InitialCaches ==
    {NoFile}
    \cup [kind : {"valid"}, token : {1}, timestamp : {0}]
    \cup [kind : CorruptKinds, token : {1}, timestamp : {0}]

\* current_time - timestamp <= 23 * 3600
token_fresh_inclusive(timestamp, current_time) == current_time - timestamp <= Window

\* utils.read_token: current_time - timestamp < 23 * 3600
token_fresh(timestamp, current_time) == current_time - timestamp < Window

\* what utils.read_token does with the content of the file
\* "token": data["token"]; "False": too old; "raise": pickle.load or a key lookup raises
read_token(content, current_time) ==
    CASE content.kind = "valid" ->
            IF token_fresh(content.timestamp, current_time) THEN "token" ELSE "False"
      [] content.kind = "no_token" ->
            IF token_fresh(content.timestamp, current_time) THEN "raise" ELSE "False"
      [] OTHER -> "raise"

tokenIdle ==
    << pc, subtitles_list, auto_select, use_ai, scores, ai_scores, best_subtitle, sorted_subs,
       selected_sub, answer, aiVars, pipeVars, scoreVars, moreVars >>

\* time passes
Tick ==
    /\ \E later \in Instants :
          /\ later > clock
          /\ clock' = later
    /\ UNCHANGED << cache, workers, tokens_issued, tokenIdle >>

\* OpenSubtitles.login is called (by __init__)
StartLogin(w) ==
    /\ workers[w].pc = "idle"
    /\ workers' = [workers EXCEPT ![w].pc = "exists"]
    /\ UNCHANGED << cache, clock, tokens_issued, tokenIdle >>

\* utils.read_token: os.path.exists(TOKEN_STORAGE_FILE)
CheckExists(w) ==
    /\ workers[w].pc = "exists"
    /\ workers' = [workers EXCEPT ![w].pc = IF cache.kind = "absent" THEN "post" ELSE "load"]
    /\ UNCHANGED << cache, clock, tokens_issued, tokenIdle >>

\* utils.read_token: open, pickle.load, the age test; login returns the cached
\* token, goes on to the network, or dies of the exception nobody catches
LoadToken(w) ==
    /\ workers[w].pc = "load"
    /\ LET got == read_token(cache, clock)
       IN workers' = [workers EXCEPT
                         ![w].pc = CASE got = "token" -> "idle"
                                     [] got = "False" -> "post"
                                     [] OTHER -> "failed",
                         ![w].token = IF got = "token" THEN cache.token ELSE @]
    /\ UNCHANGED << cache, clock, tokens_issued, tokenIdle >>

\* login: requests.post and response.json()["token"]; without a token in the
\* response login calls exit()
PostLogin(w) ==
    /\ workers[w].pc = "post"
    /\ \/ /\ tokens_issued < MaxTokens
          /\ tokens_issued' = tokens_issued + 1
          /\ workers' = [workers EXCEPT ![w].pc = "save_open",
                                        ![w].token = tokens_issued + 1]
       \/ /\ workers' = [workers EXCEPT ![w].pc = "exited"]
          /\ UNCHANGED tokens_issued
    /\ UNCHANGED << cache, clock, tokenIdle >>

\* utils.save_token: the dict with time.time(), then open(..., "wb") truncates
SaveOpen(w) ==
    /\ workers[w].pc = "save_open"
    /\ workers' = [workers EXCEPT ![w].pc = "save_write", ![w].stamp = clock]
    /\ cache' = [kind |-> "empty", token |-> 0, timestamp |-> 0]
    /\ UNCHANGED << clock, tokens_issued, tokenIdle >>

\* utils.save_token: pickle.dump and the close of the file; login returns the token
SaveWrite(w) ==
    /\ workers[w].pc = "save_write"
    /\ cache' = [kind |-> "valid", token |-> workers[w].token, timestamp |-> workers[w].stamp]
    /\ workers' = [workers EXCEPT ![w].pc = "idle"]
    /\ UNCHANGED << clock, tokens_issued, tokenIdle >>

\* the workers start with whatever token.pkl is there
InitToken ==
    /\ pc = "token"
    /\ cache \in InitialCaches
    /\ clock \in Instants
    /\ workers = [w \in Workers |-> IdleWorker]
    /\ tokens_issued = 1
    /\ normalized = EmptyDict
    /\ InitMoreIdle
    /\ subtitles_list = << >>
    /\ auto_select = TRUE
    /\ use_ai = FALSE
    /\ InitSelectorIdle
    /\ InitPipelineIdle

NextToken ==
    \/ Tick
    \/ \E w \in Workers : StartLogin(w)
    \/ \E w \in Workers : CheckExists(w)
    \/ \E w \in Workers : LoadToken(w)
    \/ \E w \in Workers : PostLogin(w)
    \/ \E w \in Workers : SaveOpen(w)
    \/ \E w \in Workers : SaveWrite(w)

SpecToken == InitToken /\ [][NextToken]_vars

\* ------------------------------------------------------------ the Filename Analyzer
\* File names are sequences of characters here, so that the regular
\* expressions of extract_season_and_episode are matched character by character.
Digits == {"0", "1", "2", "3", "4", "5", "6", "7", "8", "9"}

DigitChars == << "0", "1", "2", "3", "4", "5", "6", "7", "8", "9" >>

\* the value of a digit character
digit_value(c) == (CHOOSE k \in 1..10 : DigitChars[k] = c) - 1

\* int(text) for a string of digits
RECURSIVE to_int(_)
to_int(text) ==
    IF text = << >> THEN 0
    ELSE 10 * to_int(SubSeq(text, 1, Len(text) - 1)) + digit_value(text[Len(text)])

\* Python's None as a season or an episode: no int() of digits is negative
Absent == -1

\* the upper-case form of the letters the patterns use
upper(c) ==
    CASE c = "s" -> "S" [] c = "e" -> "E" [] c = "x" -> "X" [] c = "p" -> "P"
      [] c = "i" -> "I" [] c = "o" -> "O" [] c = "d" -> "D" [] c = "a" -> "A"
      [] c = "n" -> "N"

\* elements of a pattern: a letter under re.IGNORECASE, a literal character,
\* \s, \d{min,max}, \d+ and \s*, the parentheses of a group, an alternation
Letter(c) == [kind |-> "char", set |-> {c, upper(c)}]
Literal(c) == [kind |-> "char", set |-> {c}]
Whitespace == [kind |-> "char", set |-> {" "}]
DigitsBetween(min, max) == [kind |-> "repeat", set |-> Digits, min |-> min, max |-> max]
DigitsOneOrMore == [kind |-> "many", set |-> Digits, min |-> 1]
WhitespaceAny == [kind |-> "many", set |-> {" "}, min |-> 0]
GroupOpen == [kind |-> "open"]
GroupClose == [kind |-> "close"]
Word(w) == [k \in 1..Len(w) |-> Letter(w[k])]
Either(options) == [kind |-> "alt", options |-> options]

\* (\d)
OneDigit == << GroupOpen, DigitsBetween(1, 1), GroupClose >>

\* (\d{1,2})
OneOrTwoDigits == << GroupOpen, DigitsBetween(1, 2), GroupClose >>

\* the patterns list of extract_season_and_episode, in its order
patterns ==
    << << Letter("s") >> \o OneOrTwoDigits \o << Letter("e") >> \o OneOrTwoDigits,
       << Letter("s") >> \o OneOrTwoDigits \o << WhitespaceAny, Literal("-"), WhitespaceAny,
                                                 Letter("e") >> \o OneOrTwoDigits,
       OneOrTwoDigits \o << Letter("x") >> \o OneOrTwoDigits,
       << Either(<< Word(<< "e", "p", "i", "s", "o", "d", "e" >>), Word(<< "e", "p" >>) >>),
          WhitespaceAny >> \o OneOrTwoDigits,
       << Letter("e") >> \o OneOrTwoDigits,
       << Letter("e"), Letter("p") >> \o OneOrTwoDigits,
       << Whitespace, Literal("-"), WhitespaceAny, Letter("s") >> \o OneOrTwoDigits
          \o << Letter("e") >> \o OneOrTwoDigits,
       Word(<< "s", "e", "a", "s", "o", "n" >>) \o << WhitespaceAny >> \o OneOrTwoDigits
          \o << WhitespaceAny >> \o Word(<< "e", "p", "i", "s", "o", "d", "e" >>)
          \o << WhitespaceAny >> \o OneOrTwoDigits,
       << Letter("s") >> \o OneOrTwoDigits \o << WhitespaceAny, Letter("e"), Letter("p"),
                                                 WhitespaceAny >> \o OneOrTwoDigits,
       << GroupOpen, DigitsBetween(4, 4), GroupClose, Literal("."), GroupOpen,
          DigitsBetween(2, 2), Literal("."), DigitsBetween(2, 2), GroupClose >>,
       << GroupOpen, DigitsBetween(4, 4), GroupClose, Literal("-"), GroupOpen,
          DigitsBetween(2, 2), Literal("-"), DigitsBetween(2, 2), GroupClose >>,
       Word(<< "e", "p", "i", "s", "o", "d", "e" >>)
          \o << Whitespace, Literal("#"), GroupOpen, DigitsOneOrMore, GroupClose, Literal("."),
                GroupOpen, DigitsOneOrMore, GroupClose >>,
       << Letter("e") >> \o OneOrTwoDigits >>

\* the characters text[from..from+count-1] exist and all lie in the set
all_in(text, from, count, set) ==
    /\ from + count - 1 <= Len(text)
    /\ \A k \in from..(from + count - 1) : text[k] \in set

\* the match of a pattern at one position of the text, as the backtracking
\* matcher of re finds it: the groups of the first way to match, or None;
\* quantifiers are greedy, alternatives are tried from left to right
RECURSIVE match_here(_, _, _, _, _)
RECURSIVE match_repeat(_, _, _, _, _, _)
RECURSIVE match_either(_, _, _, _, _, _)
match_here(pattern, text, at, opened, groups) ==
    IF pattern = << >> THEN Some(groups)
    ELSE LET element == Head(pattern)
             rest == Tail(pattern)
         IN CASE element.kind = "char" ->
                    IF all_in(text, at, 1, element.set)
                    THEN match_here(rest, text, at + 1, opened, groups)
                    ELSE None
              [] element.kind = "open" -> match_here(rest, text, at, at, groups)
              [] element.kind = "close" ->
                    match_here(rest, text, at, 0, Append(groups, SubSeq(text, opened, at - 1)))
              [] element.kind = "repeat" ->
                    match_repeat(pattern, text, at, opened, groups, element.max)
              [] element.kind = "many" ->
                    match_repeat(pattern, text, at, opened, groups, Len(text))
              [] element.kind = "alt" ->
                    match_either(element.options, rest, text, at, opened, groups)

\* a quantified element: the longest run first, then shorter ones
match_repeat(pattern, text, at, opened, groups, count) ==
    IF count < Head(pattern).min THEN None
    ELSE LET found == IF all_in(text, at, count, Head(pattern).set)
                      THEN match_here(Tail(pattern), text, at + count, opened, groups)
                      ELSE None
         IN IF found # None THEN found
            ELSE match_repeat(pattern, text, at, opened, groups, count - 1)

\* an alternation: the first option after which the rest matches
match_either(options, rest, text, at, opened, groups) ==
    IF options = << >> THEN None
    ELSE LET found == match_here(Head(options) \o rest, text, at, opened, groups)
         IN IF found # None THEN found
            ELSE match_either(Tail(options), rest, text, at, opened, groups)

\* re.search(pattern, text, re.IGNORECASE).groups(): the leftmost match
RECURSIVE search_from(_, _, _)
search_from(pattern, text, at) ==
    IF at > Len(text) + 1 THEN None
    ELSE LET found == match_here(pattern, text, at, 0, << >>)
         IN IF found # None THEN found ELSE search_from(pattern, text, at + 1)

\* media_name.replace("_", " ").replace(".", " ")
normalized_name(name) ==
    [k \in 1..Len(name) |-> IF name[k] \in {"_", "."} THEN " " ELSE name[k]]

\* episode.replace(".", "").replace("-", "")
RECURSIVE compacted(_)
compacted(text) ==
    IF text = << >> THEN << >>
    ELSE (IF Head(text) \in {".", "-"} THEN << >> ELSE << Head(text) >>)
         \o compacted(Tail(text))

\* a pattern with one number leaves the season absent
from_groups_season_absent(groups) ==
    IF Len(groups) = 1 THEN << Absent, to_int(groups[1]) >>
    ELSE IF Len(groups[1]) = 4 THEN << 1, to_int(compacted(groups[2])) >>
    ELSE << to_int(groups[1]), to_int(groups[2]) >>

\* what the loop returns for the groups of a match; int() of digits cannot raise
from_groups(groups) ==
    IF Len(groups) = 1 THEN << 1, to_int(groups[1]) >>
    ELSE IF Len(groups[1]) = 4 THEN << 1, to_int(compacted(groups[2])) >>
    ELSE << to_int(groups[1]), to_int(groups[2]) >>

\* the loop over the patterns: the first pattern that matches decides
RECURSIVE first_match(_, _)
first_match(remaining, text) ==
    IF remaining = << >> THEN << Absent, Absent >>
    ELSE LET found == search_from(Head(remaining), text, 1)
         IN IF found # None THEN from_groups(found[1])
            ELSE first_match(Tail(remaining), text)

\* SubtitleUtils.extract_season_and_episode
extract_season_and_episode(name) ==
    IF name = << >> THEN << Absent, Absent >>
    ELSE first_match(patterns, normalized_name(name))

\* ------------------------------------------------------------ file names for the analyzer
\* f"{n:02d}" for n below 100, and f"{n}"
two_digits(n) == << DigitChars[(n \div 10) + 1], DigitChars[(n % 10) + 1] >>
decimal(n) == IF n < 10 THEN << DigitChars[n + 1] >> ELSE two_digits(n)

Title == << "S", "h", "o", "w" >>
Prefixes == {<< >>, Title \o << " " >>, Title \o << "." >>}
Suffixes == {<< >>, << ".", "7", "2", "0", "p" >>, << " ", "x", "2", "6", "4" >>}

Seasons == 0..MaxSeason
Episodes == 0..MaxEpisode
Months == 1..MaxMonth
Days == 1..MaxDay

\* the season/episode markers of a file name
SxxEyy(season, episode) == << "S" >> \o two_digits(season) \o << "E" >> \o two_digits(episode)
SxxDashEyy(season, episode) ==
    << "S" >> \o two_digits(season) \o << "-", "E" >> \o two_digits(episode)
NxM(season, episode) == decimal(season) \o << "x" >> \o two_digits(episode)
SeasonNEpisodeM(season, episode) ==
    << "S", "e", "a", "s", "o", "n", " " >> \o decimal(season)
    \o << " ", "E", "p", "i", "s", "o", "d", "e", " " >> \o decimal(episode)
EpisodeHashNM(season, episode) ==
    << "E", "p", "i", "s", "o", "d", "e", " ", "#" >> \o decimal(season) \o << "." >>
    \o decimal(episode)
EpisodeN(episode) == << "E", "p", "i", "s", "o", "d", "e", " " >> \o decimal(episode)
Eyy(episode) == << "E" >> \o two_digits(episode)
EPyy(episode) == << "E", "P" >> \o two_digits(episode)
DateDotted(month, day) ==
    << "2", "0", "2", "4", "." >> \o two_digits(month) \o << "." >> \o two_digits(day)
DateDashed(month, day) ==
    << "2", "0", "2", "4", "-" >> \o two_digits(month) \o << "-" >> \o two_digits(day)

TwoNumberMarkers ==
    UNION {{SxxEyy(n, m), SxxDashEyy(n, m), NxM(n, m), SeasonNEpisodeM(n, m),
            EpisodeHashNM(n, m)} : n \in Seasons, m \in Episodes}
OneNumberMarkers == UNION {{EpisodeN(m), Eyy(m), EPyy(m)} : m \in Episodes}
DateMarkers == UNION {{DateDotted(m, d), DateDashed(m, d)} : m \in Months, d \in Days}
Markers == TwoNumberMarkers \cup OneNumberMarkers \cup DateMarkers \cup {<< >>}

\* a marker inside a file name
Named(prefix, marker, suffix) == prefix \o marker \o suffix

AnalyzerNames == {Named(p, m, x) : p \in Prefixes, m \in Markers, x \in Suffixes}

analyzerIdle ==
    << subtitles_list, auto_select, use_ai, scores, ai_scores, best_subtitle, sorted_subs,
       selected_sub, answer, aiVars, backend, media_path_list, sync_choice, file_idx, issued,
       metadata_ids, imdb_left, alt_left, query_failed, collected, file_results, run, log,
       scoreVars, tokenVars, driverVars, downloadVars >>

\* extract_season_and_episode is called with the file name
ExtractSeasonAndEpisode ==
    /\ pc = "analyzer_input"
    /\ extracted' = extract_season_and_episode(media_name)
    /\ pc' = "analyzed"
    /\ UNCHANGED << media_name, analyzerIdle >>

\* a file name for the analyzer
InitAnalyzer ==
    /\ pc = "analyzer_input"
    /\ media_name \in AnalyzerNames
    /\ subtitles_list = << >>
    /\ auto_select = TRUE
    /\ use_ai = FALSE
    /\ InitSelectorIdle
    /\ InitExtraIdle
    /\ backend = "subdl"
    /\ media_path_list = << >>
    /\ sync_choice = "no"
    /\ file_idx = 1
    /\ issued = << >>
    /\ metadata_ids = 0
    /\ imdb_left = 0
    /\ alt_left = 0
    /\ query_failed = FALSE
    /\ collected = << >>
    /\ file_results = << >>
    /\ run = "running"
    /\ log = ""

NextAnalyzer == ExtractSeasonAndEpisode

SpecAnalyzer == InitAnalyzer /\ [][NextAnalyzer]_vars

\* ------------------------------------------------------------ the driver (download_subs.py)
\* the members of SubtitleBackend, by value
SubtitleBackend == {"opensubtitles", "subdl", "auto", "ask"}

\* what general.preferred_backend can hold: a member's value or anything else
PreferredSettings == SubtitleBackend \cup {"invalid"}

\* _choose_backend's return value when both APIs are unavailable
NoBackend == "None"

\* _get_backend_from_config: SubtitleBackend(backend_str), ASK on ValueError
backend_from_config(backend_str) ==
    IF backend_str \in SubtitleBackend THEN backend_str ELSE "ask"

\* _ask_backend: the member at choice_num - 1 of [OPENSUBTITLES, SUBDL, AUTO]
menu_entry(choice_num) == << "opensubtitles", "subdl", "auto" >>[choice_num]

\* the choice between the two available APIs in the AUTO branch
auto_backend(opensubtitles_available, subdl_available) ==
    IF opensubtitles_available THEN "opensubtitles"
    ELSE IF subdl_available THEN "subdl"
    ELSE NoBackend

driverIdle ==
    << subtitles_list, auto_select, use_ai, scores, ai_scores, best_subtitle, sorted_subs,
       selected_sub, aiVars, backend, media_path_list, sync_choice, media_name, issued,
       metadata_ids, imdb_left, alt_left, query_failed, collected, scoreVars, tokenVars,
       extractVars, downloadVars, config_complete >>

\* main: _get_backend_from_config, then download_subtitles(media_paths, language, backend)
GetBackendFromConfig ==
    /\ pc = "driver_start"
    /\ preferred_backend' = backend_from_config(preferred_backend)
    /\ pc' = "choose"
    /\ UNCHANGED << driverIdle, chosen_backend, answer, file_idx, file_results, run, log >>

\* _choose_backend: ASK goes to the menu, AUTO probes both APIs, a concrete
\* backend is returned as it is
ChooseBackend ==
    /\ pc = "choose"
    /\ CASE preferred_backend = "ask" ->
              /\ pc' = "ask_backend"
              /\ UNCHANGED chosen_backend
         [] preferred_backend = "auto" ->
              /\ \E opensubtitles_available, subdl_available \in BOOLEAN :
                    chosen_backend' = auto_backend(opensubtitles_available, subdl_available)
              /\ pc' = "dispatch"
         [] OTHER ->
              /\ chosen_backend' = preferred_backend
              /\ pc' = "dispatch"
    /\ UNCHANGED << driverIdle, preferred_backend, answer, file_idx, file_results, run, log >>

\* _ask_backend: 1, 2 or 3 returns the menu entry, anything else prompts again
AskBackend ==
    /\ pc = "ask_backend"
    /\ \E choice_num \in 0..4 :
          /\ answer' = choice_num
          /\ IF 1 <= choice_num /\ choice_num <= 3
             THEN /\ chosen_backend' = menu_entry(choice_num)
                  /\ pc' = "dispatch"
             ELSE UNCHANGED << chosen_backend, pc >>
    /\ UNCHANGED << driverIdle, preferred_backend, file_idx, file_results, run, log >>

\* download_subtitles: return on None, the branch of the chosen backend, or
\* "Invalid backend selected."
Dispatch ==
    /\ pc = "dispatch"
    /\ CASE chosen_backend = NoBackend ->
              /\ pc' = "driver_done"
              /\ run' = "completed"
              /\ log' = "apis_unavailable"
         [] chosen_backend = "opensubtitles" ->
              /\ pc' = "init_opensubtitles"
              /\ UNCHANGED << run, log >>
         [] chosen_backend = "subdl" ->
              /\ pc' = "init_subdl"
              /\ UNCHANGED << run, log >>
         [] OTHER ->
              /\ pc' = "driver_done"
              /\ run' = "completed"
              /\ log' = "invalid_backend"
    /\ UNCHANGED << driverIdle, preferred_backend, chosen_backend, answer, file_idx,
                    file_results >>

\* _init_opensubtitles: a missing key is caught (sys.exit(1)); the call passes
\* sync_audio_to_subs, a keyword OpenSubtitles.__init__ does not have: TypeError,
\* which the except KeyError does not catch
InitOpenSubtitles ==
    /\ pc = "init_opensubtitles"
    /\ pc' = "driver_done"
    /\ IF config_complete
       THEN run' = "crashed" /\ log' = "TypeError"
       ELSE run' = "exited" /\ log' = "missing_key"
    /\ UNCHANGED << driverIdle, preferred_backend, chosen_backend, answer, file_idx,
                    file_results >>

\* _init_subdl: a missing key is caught (sys.exit(1)); otherwise the client is there
InitSubDL ==
    /\ pc = "init_subdl"
    /\ IF config_complete
       THEN /\ pc' = IF media_path_list = << >> THEN "driver_done" ELSE "process_media_list"
            /\ run' = IF media_path_list = << >> THEN "completed" ELSE run
            /\ UNCHANGED log
       ELSE /\ pc' = "driver_done"
            /\ run' = "exited"
            /\ log' = "missing_key"
    /\ UNCHANGED << driverIdle, preferred_backend, chosen_backend, answer, file_idx,
                    file_results >>

\* SubDL.process_media_list: process_media_file for one media path, True or False
ProcessMediaList ==
    /\ pc = "process_media_list"
    /\ \E result \in BOOLEAN : file_results' = Append(file_results, result)
    /\ file_idx' = file_idx + 1
    /\ pc' = IF file_idx = Len(media_path_list) THEN "driver_done" ELSE pc
    /\ run' = IF file_idx = Len(media_path_list) THEN "completed" ELSE run
    /\ UNCHANGED << driverIdle, preferred_backend, chosen_backend, answer, log >>

\* the script is started with a configuration and the media paths
InitDriver ==
    /\ pc = "driver_start"
    /\ preferred_backend \in PreferredSettings
    /\ config_complete \in BOOLEAN
    /\ chosen_backend = NotCalled
    /\ media_path_list \in MediaLists
    /\ extracted = NotCalled
    /\ archive = NotAZip
    /\ temp_zip = FALSE
    /\ selected_subtitle_path = None
    /\ normalized = EmptyDict
    /\ cache = NoFile
    /\ clock = 0
    /\ workers = [w \in Workers |-> IdleWorker]
    /\ tokens_issued = 0
    /\ subtitles_list = << >>
    /\ auto_select = TRUE
    /\ use_ai = FALSE
    /\ InitSelectorIdle
    /\ backend = "subdl"
    /\ sync_choice = "no"
    /\ file_idx = 1
    /\ media_name = ""
    /\ issued = << >>
    /\ metadata_ids = 0
    /\ imdb_left = 0
    /\ alt_left = 0
    /\ query_failed = FALSE
    /\ collected = << >>
    /\ file_results = << >>
    /\ run = "running"
    /\ log = ""

NextDriver ==
    \/ GetBackendFromConfig
    \/ ChooseBackend
    \/ AskBackend
    \/ Dispatch
    \/ InitOpenSubtitles
    \/ InitSubDL
    \/ ProcessMediaList

SpecDriver == InitDriver /\ [][NextDriver]_vars

\* ------------------------------------------------------------ the SubDL download
Mkv == << ".", "m", "k", "v" >>
Srt == << ".", "s", "r", "t" >>
Ass == << ".", "a", "s", "s" >>

\* the video files: an episode and a movie
VideoPaths == {Title \o << "." >> \o SxxEyy(1, 2) \o Mkv, Title \o Mkv}

\* the files an archive can hold: subtitles of two episodes, and a text file
ArchiveNames ==
    {Title \o << "." >> \o SxxEyy(1, 2) \o Srt,
     Title \o << "." >> \o SxxEyy(1, 2) \o Ass,
     Title \o << "." >> \o SxxEyy(1, 3) \o Srt,
     << "n", "f", "o", ".", "t", "x", "t" >>}

Archives == {NotAZip} \cup [is_zip : {TRUE}, names : ListsUpTo(ArchiveNames, MaxArchive)]

\* name.endswith(suffix)
ends_with(name, suffix) ==
    /\ Len(name) >= Len(suffix)
    /\ SubSeq(name, Len(name) - Len(suffix) + 1, Len(name)) = suffix

\* ass_files + srt_files
RECURSIVE files_ending(_, _)
files_ending(names, suffix) ==
    IF names = << >> THEN << >>
    ELSE (IF ends_with(Head(names), suffix) THEN << Head(names) >> ELSE << >>)
         \o files_ending(Tail(names), suffix)

subtitle_files(names) == files_ending(names, Ass) \o files_ending(names, Srt)

\* the first subtitle file whose season and episode are the video's
RECURSIVE first_of_episode(_, _)
first_of_episode(files, wanted) ==
    IF files = << >> THEN None
    ELSE IF extract_season_and_episode(Head(files)) = wanted THEN Some(Head(files))
    ELSE first_of_episode(Tail(files), wanted)

\* is_movie: video_season is None and video_episode is None
is_movie(video) == extract_season_and_episode(video) = << Absent, Absent >>

\* matching_subtitle: the first subtitle file for a movie, the episode's otherwise
matching_subtitle(video, names) ==
    IF is_movie(video) THEN Some(subtitle_files(names)[1])
    ELSE first_of_episode(subtitle_files(names), extract_season_and_episode(video))

downloadIdle ==
    << subtitles_list, auto_select, use_ai, scores, ai_scores, best_subtitle, sorted_subs,
       selected_sub, answer, aiVars, backend, media_path_list, sync_choice, file_idx,
       media_name, issued, metadata_ids, imdb_left, alt_left, query_failed, collected,
       file_results, run, scoreVars, tokenVars, extractVars, driverVars, archive >>

\* return None, or return selected_subtitle_path
Returns(message) ==
    /\ log' = message
    /\ pc' = "returned"

\* requests.get and raise_for_status, then the response written to the .zip
\* next to the video; a RequestException returns None
RequestArchive ==
    /\ pc = "request"
    /\ \E ok \in BOOLEAN :
          IF ok
          THEN /\ temp_zip' = TRUE
               /\ pc' = "open_zip"
               /\ UNCHANGED log
          ELSE /\ Returns("request_error")
               /\ UNCHANGED temp_zip
    /\ UNCHANGED << downloadIdle, selected_subtitle_path >>

\* zipfile.ZipFile: BadZipFile for a file that is no archive (return None);
\* return None when the archive holds no .ass and no .srt file
OpenArchive ==
    /\ pc = "open_zip"
    /\ IF ~archive.is_zip THEN Returns("invalid_zip")
       ELSE IF subtitle_files(archive.names) = << >> THEN Returns("no_subtitle_files")
       ELSE pc' = "extract" /\ UNCHANGED log
    /\ UNCHANGED << downloadIdle, temp_zip, selected_subtitle_path >>

\* the loop over the subtitle files: the matching one gets the standard name,
\* unless it cannot be read or decoded (printed, the loop goes on)
ExtractFiles ==
    /\ pc = "extract"
    /\ \E readable \in BOOLEAN :
          selected_subtitle_path' =
              IF readable THEN matching_subtitle(media_name, archive.names) ELSE None
    /\ pc' = "unlink"
    /\ UNCHANGED << downloadIdle, temp_zip, log >>

\* zip_path.unlink()
UnlinkArchive ==
    /\ pc = "unlink"
    /\ temp_zip' = FALSE
    /\ pc' = "report"
    /\ UNCHANGED << downloadIdle, selected_subtitle_path, log >>

\* the warning for no matching episode, whose f"{video_season:02d}" raises
\* TypeError for a movie (except Exception: return None), and the return
ReturnPath ==
    /\ pc = "report"
    /\ IF selected_subtitle_path # None THEN Returns("extracted")
       ELSE IF is_movie(media_name) THEN Returns("unexpected_error")
       ELSE Returns("no_matching_episode")
    /\ UNCHANGED << downloadIdle, temp_zip, selected_subtitle_path >>

\* download_single_subtitle is called for a video; the url delivers some archive
InitDownload ==
    /\ pc = "request"
    /\ media_name \in VideoPaths
    /\ archive \in Archives
    /\ temp_zip = FALSE
    /\ selected_subtitle_path = None
    /\ extracted = NotCalled
    /\ preferred_backend = "subdl"
    /\ config_complete = TRUE
    /\ chosen_backend = "subdl"
    /\ normalized = EmptyDict
    /\ cache = NoFile
    /\ clock = 0
    /\ workers = [w \in Workers |-> IdleWorker]
    /\ tokens_issued = 0
    /\ subtitles_list = << >>
    /\ auto_select = TRUE
    /\ use_ai = FALSE
    /\ InitSelectorIdle
    /\ backend = "subdl"
    /\ media_path_list = << >>
    /\ sync_choice = "no"
    /\ file_idx = 1
    /\ issued = << >>
    /\ metadata_ids = 0
    /\ imdb_left = 0
    /\ alt_left = 0
    /\ query_failed = FALSE
    /\ collected = << >>
    /\ file_results = << >>
    /\ run = "running"
    /\ log = ""

NextDownload ==
    \/ RequestArchive
    \/ OpenArchive
    \/ ExtractFiles
    \/ UnlinkArchive
    \/ ReturnPath

SpecDownload == InitDownload /\ [][NextDownload]_vars

\* ------------------------------------------------------------ properties: Selector
Range(seq) == {seq[i] : i \in DOMAIN seq}
Count(seq, c) == Cardinality({i \in DOMAIN seq : seq[i] = c})
IsPermutation(a, b) ==
    /\ Len(a) = Len(b)
    /\ \A c \in Range(a) \cup Range(b) : Count(a, c) = Count(b, c)
NoDupIds(list) == \A i, j \in DOMAIN list : list[i].id = list[j].id => i = j

\* the ranking key of the specification: (AI score or 0, deterministic score or 0, download_count)
RankKey(x) == << Get(ai_scores, x.id, 0), Get(scores, x.id, 0), x.download_count >>
DescendingBy(list, K(_)) ==
    \A i, j \in DOMAIN list : i < j => ~LexLess(K(list[i]), K(list[j]))

\* C1: for a non-empty candidate list auto_select_subtitle returns the head of the
\* list ranked descending by (AI score or 0, deterministic score, download_count),
\* ties in input order: no candidate has a greater key than the returned one and no
\* earlier candidate has an equal key.
C1_AutoSelectReturnsRankedHead ==
    (pc = "done" /\ auto_select /\ subtitles_list # << >>) =>
        /\ selected_sub # None
        /\ \E i \in DOMAIN subtitles_list :
              /\ subtitles_list[i] = selected_sub[1]
              /\ \A j \in DOMAIN subtitles_list :
                    /\ ~LexLess(RankKey(selected_sub[1]), RankKey(subtitles_list[j]))
                    /\ j < i => RankKey(subtitles_list[j]) # RankKey(selected_sub[1])

\* C2: sort_subtitle_list returns a permutation of its input in which every
\* element's key (AI score or 0, deterministic score or 0, download_count) is
\* lexicographically >= the key of every later element.
C2_SortedPermutationDescending ==
    pc = "sorted" =>
        /\ IsPermutation(sorted_subs, subtitles_list)
        /\ DescendingBy(sorted_subs, RankKey)

C2_Witness ==
    /\ pc = "sorted"
    /\ Len(sorted_subs) >= 2
    /\ sorted_subs # subtitles_list
    /\ DOMAIN scores # {}
    /\ DOMAIN ai_scores # {}

\* C3: candidates with identical keys keep, in the output of sort_subtitle_list,
\* the relative order they have in the input: for every key, the subsequence of
\* the output with that key equals the subsequence of the input with that key.
C3_SortStable ==
    pc = "sorted" =>
        \A c \in Range(subtitles_list) :
            LET SameKey(x) == RankKey(x) = RankKey(c)
            IN SelectSeq(sorted_subs, SameKey) = SelectSeq(subtitles_list, SameKey)

C3_Witness ==
    /\ pc = "sorted"
    /\ sorted_subs # subtitles_list
    /\ \E i, j \in DOMAIN subtitles_list :
          /\ i < j
          /\ subtitles_list[i] # subtitles_list[j]
          /\ RankKey(subtitles_list[i]) = RankKey(subtitles_list[j])

AiFailed == ai_outcome \in {"raised", "request_failed", "malformed", "recursion_error"}
DetKey(x) == << score_subtitle(x.release, VideoName, x.moviehash_match), x.download_count >>

\* C8: when the AI analysis raises, fails or returns malformed JSON, the ranking
\* of a deduplicated candidate list still contains every candidate, is ordered
\* descending by (deterministic score, download_count) alone, and automatic
\* selection of a non-empty list still yields a candidate.
C8_RankingSurvivesAiFailure ==
    (AiFailed /\ NoDupIds(subtitles_list) /\ pc \in {"prompt", "done"}) =>
        /\ IsPermutation(sorted_subs, subtitles_list)
        /\ DescendingBy(sorted_subs, DetKey)
        /\ (pc = "done" /\ auto_select /\ subtitles_list # << >>) => selected_sub # None

C8_Witness ==
    /\ ai_outcome = "malformed"
    /\ pc = "prompt"
    /\ NoDupIds(subtitles_list)
    /\ Len(sorted_subs) >= 2
    /\ sorted_subs # subtitles_list

\* C9: one invocation of batch_analyze_subtitles issues at most two model requests
\* (the original request and one repair attempt).
C9_AtMostTwoRequests == requests <= 2

\* C10: every AI score returned by batch_analyze_subtitles, and every AI score
\* used as the first ranking key, lies in [0,100].
C10_AiScoresInRange ==
    /\ \A i \in DOMAIN ai_results : ai_results[i].score >= 0 /\ ai_results[i].score <= 100
    /\ \A id \in DOMAIN ai_scores : ai_scores[id] >= 0 /\ ai_scores[id] <= 100

\* ------------------------------------------------------------ properties: pipelines
\* the first record of a list with the given id
first_with_id(list, id) ==
    list[CHOOSE i \in DOMAIN list :
            /\ list[i].id = id
            /\ \A j \in 1..(i - 1) : list[j].id # id]

\* C4: when an id was returned more than once for a media file, the record kept
\* in the deduplicated list is the first-seen one, in both pipelines
C4_DedupKeepsFirstSeen ==
    pc = "select" =>
        \A k \in DOMAIN subtitles_list :
            subtitles_list[k] = first_with_id(collected, subtitles_list[k].id)

AfterDedup == {"select", "download", "save", "clean", "sync", "ask_sync", "syncing"}

\* C5: after deduplication the candidate list handed to the Selector holds no two
\* records with the same id, whatever queries produced the raw results
C5_NoDuplicateIds ==
    pc \in AfterDedup => NoDupIds(subtitles_list)

\* C5 witness: duplicates were collected and removed, and several ids remain
C5_Witness ==
    /\ pc = "select"
    /\ Len(collected) > Len(subtitles_list)
    /\ Len(subtitles_list) >= 2

\* the queries the orchestrator has to issue for a media file
planned_queries(backend_, name, ids) ==
    IF backend_ = "subdl"
    THEN << "file_name" >>
         \o (IF series_pattern(name) THEN << "film_name" >> ELSE << >>)
         \o [i \in 1..ids |-> "imdb_id"]
         \o [i \in 1..alternate_names(name, "subdl") |-> "alternate"]
    ELSE << "query" >>
         \o [i \in 1..alternate_names(name, "opensubtitles") |-> "alternate"]

QueryStages == {"series", "imdb", "alternate"}

\* C6: a failed search call counts as zero results for that query only: once the
\* query sequence of a file is over, every query of the sequence has been issued
C6_FailedQueryDoesNotAbort ==
    (query_failed /\ pc \notin QueryStages) =>
        issued = planned_queries(backend, media_name, metadata_ids)

\* C7: a failure while handling one file does not stop the run: when the run is
\* over, every file of the list has been handled
C7_RunHandlesEveryFile ==
    pc = "run_end" => Len(file_results) = Len(media_path_list)

\* the collected list of the file in hand turns out empty in this step
CollectedEmpty ==
    \/ pc = "collected" /\ collected = << >>
    \/ pc = "file_start" /\ backend = "opensubtitles" /\ ~query_failed' /\ collected' = << >>

\* the file ends as a failure that is reported, with the run going on
ReportedNotFound ==
    /\ log' = "no_subtitles_found"
    /\ file_results' = Append(file_results, FALSE)
    /\ run' \in {"running", "completed"}
    /\ pc' \in {"file_start", "run_end"}

\* C11: an empty candidate list makes automatic selection yield None; the caller
\* reports that no subtitles were found and returns False for the file, nothing
\* is raised and no selection or download is attempted on an empty list
C11_EmptyListReported ==
    /\ [](/\ best_of(<< >>, VideoName).best_subtitle = None
          /\ os_auto_select_subtitle(VideoName, << >>) = None
          /\ pc \in AfterDedup => subtitles_list # << >>)
    /\ [][CollectedEmpty => ReportedNotFound]_vars

\* C11 witness: a file has just ended with "no subtitles found"
C11_Witness ==
    /\ log = "no_subtitles_found"
    /\ file_results # << >>
    /\ collected = << >>
    /\ ~query_failed

\* everything but the answer read at the prompt
allButAnswer ==
    << pc, subtitles_list, auto_select, use_ai, scores, ai_scores, best_subtitle, sorted_subs,
       selected_sub, requests, depth, ai_results, ai_outcome, pipeVars, extraVars >>

\* answer 0: nothing selected, the file is skipped and no download is started
ManualCancelled ==
    /\ log' = "cancelled"
    /\ file_results' = Append(file_results, FALSE)
    /\ selected_sub' = None
    /\ run' \in {"running", "completed"}
    /\ pc' \in {"file_start", "run_end"}

\* answer k in 1..n: the k-th record of the list that was presented
ManualChosen ==
    /\ answer' \in 1..Len(sorted_subs')
    /\ selected_sub' = Some(sorted_subs'[answer'])
    /\ IsPermutation(sorted_subs', subtitles_list)
    /\ pc' = "download"
    /\ UNCHANGED << file_results, log, run >>

\* any other answer: nothing changes and the prompt is shown again
ManualPromptsAgain ==
    /\ answer' \notin 0..Len(subtitles_list)
    /\ UNCHANGED allButAnswer

\* C12: in manual selection the answer 0 yields None (the file is skipped, no
\* download request), an answer in 1..n returns the record at that position of
\* the presented list, and any other answer changes nothing and prompts again
C12_ManualSelection ==
    [][(pc = "select" /\ ~auto_select /\ log' # "unexpected_error")
          => (ManualCancelled \/ ManualChosen \/ ManualPromptsAgain)]_vars

\* C12 witness: the second record of a presented list was chosen by the answer 2
C12_Witness ==
    /\ pc = "download"
    /\ ~auto_select
    /\ answer = 2
    /\ Len(sorted_subs) >= 2
    /\ sorted_subs[1] # sorted_subs[2]
    /\ selected_sub = Some(sorted_subs[2])

\* ------------------------------------------------------------ properties: Match Scorer
\* the candidates whose score is the one kept in the dict (the last with their id)
Scored(i) ==
    \A j \in DOMAIN subtitles_list : subtitles_list[j].id = subtitles_list[i].id => j <= i

\* C13: the deterministic score the Selector ranks and displays is the normalized
\* score and lies within [0,100], whatever the names and the hash flag
C13_ScoreNormalizedInRange ==
    pc \in {"scored", "normalized"} =>
        \A id \in DOMAIN scores :
            /\ scores[id] \in 0..100
            /\ pc = "normalized" => scores[id] = normalized[id]

\* C14: a maximal artificial match (hash match, release name identical to the
\* video file name, season and episode present, all quality tags shared) has the
\* normalized score 100
C14_MaximalMatchScores100 ==
    pc = "normalized" =>
        \A i \in DOMAIN subtitles_list :
            (/\ Scored(i)
             /\ subtitles_list[i].moviehash_match
             /\ subtitles_list[i].release = media_name
             /\ media_name = MaxMatchName)
                => normalized[subtitles_list[i].id] = 100

\* C15: a candidate for the right episode scores strictly higher than an
\* otherwise identical candidate for another episode
C15_RightEpisodeScoresHigher ==
    (pc = "scored" /\ media_name = EpisodeFile) =>
        \A i, j \in DOMAIN subtitles_list :
            (/\ Scored(i)
             /\ Scored(j)
             /\ subtitles_list[i].release = RelSame
             /\ subtitles_list[j].release = RelWrongEp
             /\ subtitles_list[i].moviehash_match = subtitles_list[j].moviehash_match)
                => scores[subtitles_list[i].id] > scores[subtitles_list[j].id]

\* the caps of score_subtitle's signals: hash match, series name, quality terms
score_caps_sum == 100 + 55 + 45

\* C16: the caps of the signals sum to the divisor MAX_POSSIBLE_SCORE, so the
\* normalized score never exceeds 100 and is 100 at the greatest raw score
C16_CapsSumToDivisor ==
    pc = "normalized" =>
        \A id \in DOMAIN scores :
            /\ scores[id] <= score_caps_sum
            /\ normalized[id] <= 100
            /\ scores[id] = score_caps_sum => normalized[id] = 100

\* ------------------------------------------------------------ properties: unusable records
\* C17: a raw record that cannot be normalized is skipped: it never enters the
\* candidate list, and the other records of the file are still deduplicated
\* and offered for selection
C17_UnusableRecordSkipped ==
    [][(pc = "collected" /\ \E i \in DOMAIN collected : collected[i] # NoneSub)
          => (/\ pc' = "select"
              /\ subtitles_list' # << >>
              /\ \A k \in DOMAIN subtitles_list' : subtitles_list'[k] # NoneSub)]_vars

\* ------------------------------------------------------------ properties: token cache
\* worker w leaves position `at` in this step
Leaves(w, at) == workers[w].pc = at /\ workers'[w].pc # at

\* login returns to its caller with the token `token`, the provider not contacted
ReusesToken(w, token) ==
    /\ workers'[w].pc = "idle"
    /\ workers'[w].token = token
    /\ tokens_issued' = tokens_issued

\* C18: login() returns the cached token without contacting the provider exactly
\* when token.pkl holds an entry younger than 23 hours; with no file or an older
\* entry it goes to the network, and after a successful login the file holds the
\* new token with the time of the save, which a login at that time reuses.
C18_TokenReusedWithinWindow ==
    [][\A w \in Workers :
          /\ (Leaves(w, "exists") /\ cache.kind = "absent") => workers'[w].pc = "post"
          /\ (Leaves(w, "load") /\ cache.kind = "valid") =>
                /\ (clock - cache.timestamp < Window) <=> ReusesToken(w, cache.token)
                /\ ~(clock - cache.timestamp < Window) => workers'[w].pc = "post"
          /\ (Leaves(w, "post") /\ workers'[w].pc # "exited") =>
                /\ workers'[w].pc = "save_open"
                /\ workers'[w].token \notin {workers[v].token : v \in Workers}
                /\ workers'[w].token # cache.token
          /\ Leaves(w, "save_open") => workers'[w].stamp = clock
          /\ Leaves(w, "save_write") =>
                /\ cache' = [kind |-> "valid", token |-> workers[w].token,
                             timestamp |-> workers[w].stamp]
                /\ workers'[w].pc = "idle"
                /\ workers[w].stamp = clock => clock' - cache'.timestamp < Window]_vars

\* one worker logged in over the network and saved, another one reused that token
C18_Witness ==
    /\ cache.kind = "valid"
    /\ cache.token > 1
    /\ \A w \in Workers : workers[w].pc = "idle" /\ workers[w].token = cache.token

\* C19: a token.pkl that cannot be read (truncated or empty file, undecodable
\* content, a missing key) counts as no token: the read raises nothing and
\* login() goes on to authenticate over the network.
C19_CorruptCacheIsAbsent ==
    [][\A w \in Workers :
          (Leaves(w, "load") /\ cache.kind \in CorruptKinds \cup {"empty"})
              => workers'[w].pc = "post"]_vars

\* C20: a worker that reads token.pkl while another worker is between the open
\* and the write of save_token gets a token or authenticates itself; it
\* does not fail, and the file ends up with the token of the last writer.
C20_ReaderToleratesWriter ==
    [][\A w, v \in Workers :
          /\ (Leaves(w, "load") /\ v # w /\ workers[v].pc = "save_write")
                => workers'[w].pc \in {"idle", "post"}
          /\ Leaves(v, "save_write") => cache'.token = workers[v].token]_vars

\* ------------------------------------------------------------ properties: query order
\* the order of the queries as the specification lists them: the alternate
\* names before the external ids
queries_in_listed_order(backend_, name, ids) ==
    IF backend_ = "subdl"
    THEN << "file_name" >>
         \o (IF series_pattern(name) THEN << "film_name" >> ELSE << >>)
         \o [i \in 1..alternate_names(name, "subdl") |-> "alternate"]
         \o [i \in 1..ids |-> "imdb_id"]
    ELSE << "query" >>
         \o [i \in 1..alternate_names(name, "opensubtitles") |-> "alternate"]

\* C21: the queries of a media file are issued in the order base query, series
\* title query, one query per alternate name, and for SubDL one query per
\* external id of the first response.
C21_QueriesInListedOrder ==
    pc = "collected" => issued = queries_in_listed_order(backend, media_name, metadata_ids)

\* ------------------------------------------------------------ properties: stage order
\* the file in hand enters the stage `at` in this step
Enters(at) == pc' = at /\ pc # at

\* C22: for each media file the stages come in the order search, select,
\* download, clean, sync: the download follows a selection that is not absent,
\* the cleaning follows a download that succeeded, the sync follows the cleaning
\* and runs only when it is switched on, or was confirmed at the prompt when the
\* setting is "ask"; the next file starts when the per-file function has returned.
C22_StagesInOrder ==
    [][/\ Enters("select") => pc = "collected"
       /\ Enters("download") => pc = "select" /\ selected_sub' # None
       /\ Enters("save") => pc = "download"
       /\ Enters("clean") => pc = (IF backend = "subdl" THEN "download" ELSE "save")
       /\ Enters("sync") => pc = "clean"
       /\ Enters("ask_sync") => pc = "sync" /\ sync_choice = "ask"
       /\ Enters("syncing") =>
             \/ pc = "sync" /\ sync_choice = "yes"
             \/ pc = "ask_sync" /\ sync_choice = "ask"
       /\ file_idx' # file_idx =>
             /\ file_idx' = file_idx + 1
             /\ Len(file_results') = file_idx
             /\ pc' \in {"file_start", "run_end"}]_vars

\* ------------------------------------------------------------ properties: download handle
\* C29: every candidate of the deduplicated SubDL list handed to the Selector
\* has an id, so a record without a usable url is not selectable and no
\* download is started for an absent id.
C29_SelectableHasId ==
    (backend = "subdl" /\ pc \in {"select", "download"}) =>
        /\ \A i \in DOMAIN subtitles_list : subtitles_list[i].id # NoId
        /\ selected_sub # None => selected_sub[1].id # NoId

\* ------------------------------------------------------------ properties: Filename Analyzer
\* the analyzer has returned for a file name built around the marker
Analyzed(marker) ==
    /\ pc = "analyzed"
    /\ \E p \in Prefixes, x \in Suffixes : media_name = Named(p, marker, x)

C25_TwoNumberFormsFirst ==
    \A n \in Seasons, m \in Episodes :
        (Analyzed(SeasonNEpisodeM(n, m)) \/ Analyzed(EpisodeHashNM(n, m)))
            => extracted = << n, m >>

\* C26: for a file name whose only marker is a date YYYY.MM.DD or YYYY-MM-DD the
\* analyzer returns season 1 and the episode MMDD.
C26_DateIsSeasonOneEpisodeMMDD ==
    \A month \in Months, day \in Days :
        (Analyzed(DateDotted(month, day)) \/ Analyzed(DateDashed(month, day)))
            => extracted = << 1, 100 * month + day >>

\* ------------------------------------------------------------ properties: driver
\* C27: whatever the preferred_backend setting and the answer at the backend
\* menu, download_subtitles dispatches on OPENSUBTITLES, SUBDL or None, not on
\* AUTO or ASK, and the run does not end with "Invalid backend selected".
C27_DispatchOnConcreteBackend ==
    /\ pc = "dispatch" => chosen_backend \in {"opensubtitles", "subdl", NoBackend}
    /\ log # "invalid_backend"

\* C28: with OpenSubtitles as the resolved backend and a complete configuration,
\* download_subtitles constructs the client and runs the per-file pipeline once
\* for each media path.
C28_OpenSubtitlesRunsEveryFile ==
    (pc = "driver_done" /\ chosen_backend = "opensubtitles" /\ config_complete) =>
        /\ run = "completed"
        /\ Len(file_results) = Len(media_path_list)

\* ------------------------------------------------------------ properties: SubDL download
\* C30: on every return of download_single_subtitle after the archive was
\* written next to the video, the temporary .zip file has been deleted.
C30_TempZipDeleted ==
    (pc = "returned" /\ log # "request_error") => ~temp_zip

====
